---- MODULE Spec2Model ----
(***************************************************************************)
(* Text-storage engine of the editor: Buffer (src/src/buffer.rs) and the   *)
(* OverlappingChunks window stream (src/src/chunked_search.rs).            *)
(*                                                                         *)
(* Byte offsets are 0-indexed as in the source; TLA+ sequences are         *)
(* 1-indexed, so the byte at offset i of s is s[i + 1].                    *)
(*                                                                         *)
(* The modules virtual_buffer, line_cache, chunk_tree and persistence are  *)
(* not among the source files; VirtualBuffer, ByteIterator and LineCache   *)
(* are modelled from sections 4.2, 4.3 and 4.5 of the specification.       *)
(***************************************************************************)
EXTENDS Integers, Sequences, FiniteSets, TLC

(***************************************************************************)
(* Bounds of the model.                                                    *)
(***************************************************************************)
\* Longest buffer content of the editing specification.
MaxLen == 3
\* Longest buffer content of the line iterator specification.
MaxLineLen == 5
\* Longest buffer content and largest queried offset of the line cache
\* specifications; the longest content of the specification with hooks, the
\* number of hook calls followed in one behaviour and the most bytes one of
\* them reports.
MaxCacheLen == 4
MaxQuery == 5
\* Largest line_count handed to populate_line_cache.
MaxPopulate == 1
MaxHookLen == 1
MaxHooks == 1
MaxHookBytes == 1
\* The distance beyond which get_line_number estimates, and the average line
\* length it assumes.  The source fixes them at 100_000 and 80
\* (buffer.rs:490, 494); the model scales both down so that a buffer of a
\* few bytes has offsets on either side of the threshold.
ESTIMATION_THRESHOLD == 2
AVERAGE_LINE_LENGTH == 2
\* Most characters in a buffer of the character specification.
MaxChars == 3
\* Longest buffer content of the word boundary specification.
MaxWordLen == 4
MaxMoveLen == 5
\* Longest text handed to the ANSI parser, and the buffer size limit of
\* is_escape_complete (32 in the source), scaled down.
MaxAnsiLen == 5
ESCAPE_LIMIT == 3
\* CHUNK_SIZE and OVERLAP of find_regex_streaming (64 KB and 4 KB in the
\* source), scaled down: the overlap is the CHUNK_SIZE of the literal search
\* and smaller than the window.
REGEX_CHUNK_SIZE == 3
REGEX_OVERLAP == 2
\* Longest buffer content of the search specification.
MaxSearchLen == 6
\* Longest literal pattern handed to find_next.
MaxPatLen == 4
\* Window size of find_pattern_streaming.  The source fixes CHUNK_SIZE at
\* 4096 (buffer.rs:257); the model scales it down so that contents of a few
\* bytes span several windows and a pattern can be longer than one window.
CHUNK_SIZE == 2
\* Longest content, largest chunk_size and largest overlap of the window
\* stream specification.
MaxStreamLen == 4
MaxChunkSize == 2
MaxOverlap == 3

(***************************************************************************)
(* Bytes.                                                                  *)
(***************************************************************************)
\* b'\n'
NL == 10
\* b'a', b'b'
ByteA == 97
ByteB == 98
\* Option::None of an Option<usize> or Option<u8>.
None == -1

Min(a, b) == IF a <= b THEN a ELSE b
Max(a, b) == IF a >= b THEN a ELSE b
\* usize::saturating_sub
saturating_sub(a, b) == IF a >= b THEN a - b ELSE 0
SetMin(S) == CHOOSE x \in S : \A y \in S : x <= y
SetMax(S) == CHOOSE x \in S : \A y \in S : x >= y

\* The bytes of s at offsets [a, b), clamped to s.
Slice(s, a, b) == SubSeq(s, Min(a, Len(s)) + 1, Min(b, Len(s)))

\* All sequences over S of length at most n.
SeqsUpTo(S, n) == UNION {[1..k -> S] : k \in 0..n}

(***************************************************************************)
(* String::from_utf8_lossy: every maximal invalid subsequence becomes      *)
(* U+FFFD (EF BF BD); valid sequences are copied.                          *)
(***************************************************************************)
REPLACEMENT == <<239, 191, 189>>

\* The byte at 1-based index i, or 0 past the end (the decoder's safe_get).
SafeGet(s, i) == IF i >= 1 /\ i <= Len(s) THEN s[i] ELSE 0

IsCont(b) == b >= 128 /\ b <= 191

\* Whether b1 may follow the leading byte b0 of a 3- or 4-byte sequence.
SecondOk(b0, b1) ==
    CASE b0 = 224 -> b1 >= 160 /\ b1 <= 191
      [] b0 = 237 -> b1 >= 128 /\ b1 <= 159
      [] b0 = 240 -> b1 >= 144 /\ b1 <= 191
      [] b0 = 244 -> b1 >= 128 /\ b1 <= 143
      [] OTHER -> IsCont(b1)

\* The sequence starting at index i: whether it is valid, and how many
\* bytes it (or the invalid prefix replaced by one U+FFFD) takes.
Utf8Step(s, i) ==
    LET b0 == s[i]
        b1 == SafeGet(s, i + 1)
        b2 == SafeGet(s, i + 2)
        b3 == SafeGet(s, i + 3)
    IN  CASE b0 < 128 -> [valid |-> TRUE, n |-> 1]
          [] b0 >= 194 /\ b0 <= 223 ->
                IF IsCont(b1) THEN [valid |-> TRUE, n |-> 2]
                ELSE [valid |-> FALSE, n |-> 1]
          [] b0 >= 224 /\ b0 <= 239 ->
                IF ~SecondOk(b0, b1) THEN [valid |-> FALSE, n |-> 1]
                ELSE IF ~IsCont(b2) THEN [valid |-> FALSE, n |-> 2]
                ELSE [valid |-> TRUE, n |-> 3]
          [] b0 >= 240 /\ b0 <= 244 ->
                IF ~SecondOk(b0, b1) THEN [valid |-> FALSE, n |-> 1]
                ELSE IF ~IsCont(b2) THEN [valid |-> FALSE, n |-> 2]
                ELSE IF ~IsCont(b3) THEN [valid |-> FALSE, n |-> 3]
                ELSE [valid |-> TRUE, n |-> 4]
          [] OTHER -> [valid |-> FALSE, n |-> 1]

RECURSIVE LossyFrom(_, _)
LossyFrom(s, i) ==
    IF i > Len(s) THEN <<>>
    ELSE LET st == Utf8Step(s, i)
         IN  (IF st.valid THEN SubSeq(s, i, i + st.n - 1) ELSE REPLACEMENT)
                 \o LossyFrom(s, i + st.n)

from_utf8_lossy(bytes) == LossyFrom(bytes, 1)

(***************************************************************************)
(* ByteIterator (virtual_buffer, modelled from section 4.3): a position    *)
(* and the snapshot the cursor was created against.                        *)
(***************************************************************************)
\* VirtualBuffer::iter_at
iter_at(snap, pos) == [snap |-> snap, pos |-> Min(pos, Len(snap))]

\* ByteIterator::peek
peek(it) == IF it.pos < Len(it.snap) THEN it.snap[it.pos + 1] ELSE None

\* ByteIterator::next: the byte at the position, then advance.
bi_next(it) ==
    IF it.pos < Len(it.snap)
    THEN [it |-> [it EXCEPT !.pos = @ + 1], byte |-> it.snap[it.pos + 1]]
    ELSE [it |-> it, byte |-> None]

\* ByteIterator::prev: retreat, then the byte at the new position.
bi_prev(it) ==
    IF it.pos = 0
    THEN [it |-> it, byte |-> None]
    ELSE [it |-> [it EXCEPT !.pos = @ - 1], byte |-> it.snap[it.pos]]

\* ByteIterator::seek
seek(it, pos) == [it EXCEPT !.pos = Min(pos, Len(it.snap))]

(***************************************************************************)
(* LineIterator (buffer.rs:760-859): a line cursor over a ByteIterator.    *)
(* An Option<(usize, String)> is a record: some = FALSE is None.           *)
(***************************************************************************)
NoLine == [some |-> FALSE, start |-> 0, text |-> <<>>]
SomeLine(s, t) == [some |-> TRUE, start |-> s, text |-> t]

\* The backward scan of LineIterator::new and LineIterator::prev: step back
\* until position 0 or until the byte stepped onto is a newline, then move
\* past that newline.
RECURSIVE scan_to_line_start(_)
scan_to_line_start(it) ==
    IF it.pos > 0
    THEN LET p == bi_prev(it).it
         IN  IF peek(p) = NL THEN bi_next(p).it ELSE scan_to_line_start(p)
    ELSE it

\* LineIterator::new without the backward scan to the start of the line.
LineIterator_new_no_scan(vbuf, byte_pos) ==
    iter_at(vbuf, Min(byte_pos, Len(vbuf)))

\* LineIterator::new
LineIterator_new(vbuf, byte_pos) ==
    scan_to_line_start(iter_at(vbuf, Min(byte_pos, Len(vbuf))))

\* The forward read of next and prev: bytes up to and including the next
\* newline, or up to the end of the snapshot.
RECURSIVE read_line(_, _)
read_line(it, acc) ==
    LET r == bi_next(it)
    IN  IF r.byte = None THEN [it |-> r.it, content |-> acc]
        ELSE IF r.byte = NL THEN [it |-> r.it, content |-> Append(acc, NL)]
        ELSE read_line(r.it, Append(acc, r.byte))

\* LineIterator::next that hands the line out without its newline.
LineIterator_next_trimmed(it) ==
    IF it.pos >= Len(it.snap)
    THEN [it |-> it, ret |-> NoLine]
    ELSE LET r == read_line(it, <<>>)
             n == Len(r.content)
             trimmed == IF r.content[n] = NL THEN SubSeq(r.content, 1, n - 1)
                        ELSE r.content
         IN  [it |-> r.it, ret |-> SomeLine(it.pos, from_utf8_lossy(trimmed))]

\* LineIterator::next
LineIterator_next(it) ==
    IF it.pos >= Len(it.snap)
    THEN [it |-> it, ret |-> NoLine]
    ELSE LET r == read_line(it, <<>>)
         IN  [it |-> r.it, ret |-> SomeLine(it.pos, from_utf8_lossy(r.content))]

\* LineIterator::prev without the step back over the end of the line just
\* read: the backward scan starts at the cursor itself.
LineIterator_prev_no_step_back(it) ==
    IF it.pos = 0
    THEN [it |-> it, ret |-> NoLine]
    ELSE LET at_start == scan_to_line_start(seek(it, it.pos))
             r == read_line(at_start, <<>>)
         IN  [it |-> seek(r.it, at_start.pos),
              ret |-> SomeLine(at_start.pos, from_utf8_lossy(r.content))]

\* LineIterator::prev
LineIterator_prev(it) ==
    IF it.pos = 0
    THEN [it |-> it, ret |-> NoLine]
    ELSE LET at_start == scan_to_line_start(seek(it, saturating_sub(it.pos, 1)))
             r == read_line(at_start, <<>>)
         IN  [it |-> seek(r.it, at_start.pos),
              ret |-> SomeLine(at_start.pos, from_utf8_lossy(r.content))]

(***************************************************************************)
(* OverlappingChunks (chunked_search.rs:52-167).                           *)
(***************************************************************************)
NoChunk == [some |-> FALSE, buffer |-> <<>>, absolute_pos |-> 0, valid_start |-> 0]

\* OverlappingChunks::new
OverlappingChunks_new(iter, start, end, chunk_size, overlap) ==
    [iter |-> iter, buffer |-> <<>>, buffer_start_pos |-> start,
     current_read_pos |-> start, end |-> end, chunk_size |-> chunk_size,
     overlap |-> overlap, first_chunk |-> TRUE]

\* The two fill loops of fill_next_chunk: push bytes while the buffer is
\* shorter than target and the read position is before end.
RECURSIVE fill_loop(_, _)
fill_loop(oc, target) ==
    IF Len(oc.buffer) < target /\ oc.current_read_pos < oc.end
    THEN LET r == bi_next(oc.iter)
         IN  IF r.byte # None
             THEN fill_loop([oc EXCEPT !.iter = r.it,
                                       !.buffer = Append(@, r.byte),
                                       !.current_read_pos = @ + 1], target)
             ELSE oc
    ELSE oc

\* fill_next_chunk that reports a chunk whenever the buffer is not empty,
\* whether or not bytes were added.
fill_next_chunk_not_empty(oc) ==
    IF oc.first_chunk
    THEN LET filled == fill_loop([oc EXCEPT !.first_chunk = FALSE], oc.chunk_size)
         IN  [oc |-> filled, ok |-> Len(filled.buffer) > 0]
    ELSE LET drain_amount == Len(oc.buffer) - oc.overlap
             drained == IF Len(oc.buffer) > oc.overlap
                        THEN [oc EXCEPT !.buffer = SubSeq(@, drain_amount + 1, Len(@)),
                                        !.buffer_start_pos = @ + drain_amount]
                        ELSE oc
             filled == fill_loop(drained, oc.overlap + oc.chunk_size)
         IN  [oc |-> filled, ok |-> Len(filled.buffer) > 0]

\* fill_next_chunk that drains the buffer without advancing
\* buffer_start_pos.
fill_next_chunk_start_kept(oc) ==
    IF oc.first_chunk
    THEN LET filled == fill_loop([oc EXCEPT !.first_chunk = FALSE], oc.chunk_size)
         IN  [oc |-> filled, ok |-> Len(filled.buffer) > 0]
    ELSE IF oc.current_read_pos >= oc.end
    THEN [oc |-> oc, ok |-> FALSE]
    ELSE LET drain_amount == Len(oc.buffer) - oc.overlap
             drained == IF Len(oc.buffer) > oc.overlap
                        THEN [oc EXCEPT !.buffer = SubSeq(@, drain_amount + 1, Len(@))]
                        ELSE oc
             before_len == Len(drained.buffer)
             filled == fill_loop(drained, oc.overlap + oc.chunk_size)
         IN  [oc |-> filled, ok |-> Len(filled.buffer) > before_len]

\* OverlappingChunks::fill_next_chunk
fill_next_chunk(oc) ==
    IF oc.first_chunk
    THEN LET filled == fill_loop([oc EXCEPT !.first_chunk = FALSE], oc.chunk_size)
         IN  [oc |-> filled, ok |-> Len(filled.buffer) > 0]
    ELSE IF oc.current_read_pos >= oc.end
    THEN [oc |-> oc, ok |-> FALSE]
    ELSE LET drain_amount == Len(oc.buffer) - oc.overlap
             drained == IF Len(oc.buffer) > oc.overlap
                        THEN [oc EXCEPT !.buffer = SubSeq(@, drain_amount + 1, Len(@)),
                                        !.buffer_start_pos = @ + drain_amount]
                        ELSE oc
             before_len == Len(drained.buffer)
             filled == fill_loop(drained, oc.overlap + oc.chunk_size)
         IN  [oc |-> filled, ok |-> Len(filled.buffer) > before_len]

\* <OverlappingChunks as Iterator>::next
OverlappingChunks_next(oc) ==
    LET is_first == oc.buffer_start_pos = oc.current_read_pos
        f == fill_next_chunk(oc)
    IN  IF ~f.ok
        THEN [oc |-> f.oc, item |-> NoChunk]
        ELSE [oc |-> f.oc,
              item |-> [some |-> TRUE,
                        buffer |-> f.oc.buffer,
                        absolute_pos |-> f.oc.buffer_start_pos,
                        valid_start |-> IF is_first THEN 0
                                        ELSE Min(f.oc.overlap, Len(f.oc.buffer))]]

(***************************************************************************)
(* Literal search (buffer.rs:225-278, 338-344).                            *)
(***************************************************************************)
\* Buffer::find_pattern: the first offset of needle in haystack.
find_pattern(haystack, needle) ==
    IF Len(needle) = 0 \/ Len(haystack) < Len(needle)
    THEN None
    ELSE LET hits == {i \in 0..(Len(haystack) - Len(needle)) :
                          SubSeq(haystack, i + 1, i + Len(needle)) = needle}
         IN  IF hits = {} THEN None ELSE SetMin(hits)

\* The loop over the windows in find_pattern_streaming.
RECURSIVE streaming_loop(_, _, _)
streaming_loop(chunks, pattern, end) ==
    LET r == OverlappingChunks_next(chunks)
        chunk == r.item
        offset == find_pattern(chunk.buffer, pattern)
    IN  IF ~chunk.some THEN None
        ELSE IF /\ offset # None
                /\ offset + Len(pattern) > chunk.valid_start
                /\ chunk.absolute_pos + offset + Len(pattern) <= end
        THEN chunk.absolute_pos + offset
        ELSE streaming_loop(r.oc, pattern, end)

\* find_pattern_streaming with no overlap kept between windows.
find_pattern_streaming_no_overlap(vbuf, start, end, pattern) ==
    IF Len(pattern) = 0 \/ start >= end
    THEN None
    ELSE streaming_loop(
             OverlappingChunks_new(iter_at(vbuf, start), start, end, CHUNK_SIZE, 0),
             pattern, end)

\* Buffer::find_pattern_streaming
find_pattern_streaming(vbuf, start, end, pattern) ==
    IF Len(pattern) = 0 \/ start >= end
    THEN None
    ELSE streaming_loop(
             OverlappingChunks_new(iter_at(vbuf, start), start, end, CHUNK_SIZE,
                                   saturating_sub(Len(pattern), 1)),
             pattern, end)

\* Buffer::find_next
find_next(vbuf, pattern, start_pos) ==
    IF Len(pattern) = 0 THEN None
    ELSE LET buffer_len == Len(vbuf)
             fwd == IF start_pos < buffer_len
                    THEN find_pattern_streaming(vbuf, start_pos, buffer_len, pattern)
                    ELSE None
         IN  IF fwd # None THEN fwd
             ELSE IF start_pos > 0
             THEN find_pattern_streaming(vbuf, 0, start_pos, pattern)
             ELSE None

(***************************************************************************)
(* Character boundaries (buffer.rs:349-405).                               *)
(***************************************************************************)
\* The for loop of prev_char_boundary; n counts the rounds left.
RECURSIVE prev_char_loop(_, _, _)
prev_char_loop(byte_iter, n, pos) ==
    IF n = 0 THEN saturating_sub(pos, 1)
    ELSE IF byte_iter.pos = 0 THEN 0
    ELSE IF peek(byte_iter) # None /\ ~IsCont(peek(byte_iter)) THEN byte_iter.pos
    ELSE prev_char_loop(bi_prev(byte_iter).it, n - 1, pos)

\* prev_char_boundary that starts looking at pos itself.
prev_char_boundary_from_pos(vbuf, pos) ==
    IF pos = 0 THEN 0
    ELSE prev_char_loop(iter_at(vbuf, pos), 4, pos)

\* Buffer::prev_char_boundary
prev_char_boundary(vbuf, pos) ==
    IF pos = 0 THEN 0
    ELSE prev_char_loop(iter_at(vbuf, saturating_sub(pos, 1)), 4, pos)

\* The for loop of next_char_boundary.
RECURSIVE next_char_loop(_, _, _)
next_char_loop(byte_iter, n, pos) ==
    LET len == Len(byte_iter.snap)
    IN  IF n = 0 THEN Min(pos + 1, len)
        ELSE IF byte_iter.pos >= len THEN len
        ELSE IF peek(byte_iter) # None /\ ~IsCont(peek(byte_iter)) THEN byte_iter.pos
        ELSE IF bi_next(byte_iter).byte = None THEN len
        ELSE next_char_loop(bi_next(byte_iter).it, n - 1, pos)

\* Buffer::next_char_boundary
next_char_boundary(vbuf, pos) ==
    IF pos >= Len(vbuf) THEN Len(vbuf)
    ELSE next_char_loop(iter_at(vbuf, pos + 1), 4, pos)

(***************************************************************************)
(* Word boundaries (buffer.rs:408-466).                                    *)
(***************************************************************************)
\* (byte as char).is_alphanumeric(): the byte is read as the code point of
\* the same number, so the letters and numbers of U+0080..U+00FF count.
is_alphanumeric(byte) ==
    \/ byte \in 48..57 \/ byte \in 65..90 \/ byte \in 97..122
    \/ byte \in {170, 181, 186} \/ byte \in 192..214 \/ byte \in 216..246
    \/ byte \in 248..255
    \/ byte \in {178, 179, 185, 188, 189, 190}

\* let is_word_char = ch.is_alphanumeric() || ch == '_'
is_word_char(byte) == is_alphanumeric(byte) \/ byte = 95

\* The while loop of prev_word_boundary and the value after it.
RECURSIVE prev_word_loop(_, _)
prev_word_loop(byte_iter, found_word_char) ==
    IF byte_iter.pos = 0 THEN 0
    ELSE LET byte == peek(byte_iter)
         IN  IF byte # None /\ found_word_char /\ ~is_word_char(byte)
             THEN byte_iter.pos + 1
             ELSE prev_word_loop(bi_prev(byte_iter).it,
                                 found_word_char \/ (byte # None /\ is_word_char(byte)))

\* Buffer::prev_word_boundary
prev_word_boundary(vbuf, pos) ==
    IF pos = 0 THEN 0
    ELSE prev_word_loop(iter_at(vbuf, saturating_sub(pos, 1)), FALSE)

\* The while loop of next_word_boundary and the value after it.
RECURSIVE next_word_loop(_, _)
next_word_loop(byte_iter, found_word_char) ==
    LET len == Len(byte_iter.snap)
        r == bi_next(byte_iter)
    IN  IF byte_iter.pos >= len \/ r.byte = None THEN len
        ELSE IF found_word_char /\ ~is_word_char(r.byte) THEN r.it.pos
        ELSE next_word_loop(r.it, found_word_char \/ is_word_char(r.byte))

\* Buffer::next_word_boundary
next_word_boundary(vbuf, pos) ==
    IF pos >= Len(vbuf) THEN Len(vbuf)
    ELSE next_word_loop(iter_at(vbuf, pos), FALSE)

(***************************************************************************)
(* Position conversions (buffer.rs:628-747).  A (line, character) result   *)
(* is a record; panic = TRUE is a call that panics instead of returning.   *)
(***************************************************************************)
LineCol(l, c) == [panic |-> FALSE, line |-> l, character |-> c]
Panic == [panic |-> TRUE, line |-> 0, character |-> 0]

\* str::is_char_boundary on a String (valid UTF-8).
is_char_boundary(t, i) ==
    i = 0 \/ i = Len(t) \/ (i < Len(t) /\ ~IsCont(t[i + 1]))

\* char::len_utf8 and char::len_utf16 of the character with leading byte b.
len_utf8(b) == IF b < 128 THEN 1 ELSE IF b < 224 THEN 2 ELSE IF b < 240 THEN 3 ELSE 4
len_utf16(b) == IF b < 240 THEN 1 ELSE 2

\* str::encode_utf16().count()
utf16_count(t) ==
    Cardinality({i \in 1..Len(t) : ~IsCont(t[i])})
        + Cardinality({i \in 1..Len(t) : t[i] >= 240})

\* The while loop of position_to_line_col and its fall-through.
RECURSIVE line_col_loop(_, _, _)
line_col_loop(it, line_number, byte_pos) ==
    LET r == LineIterator_next(it)
        line_start == r.ret.start
        line_end == line_start + Len(r.ret.text)
    IN  IF ~r.ret.some
        THEN LineCol(IF line_number > 0 THEN line_number - 1 ELSE line_number, 0)
        ELSE IF byte_pos >= line_start /\ byte_pos <= line_end
        THEN LineCol(line_number, byte_pos - line_start)
        ELSE line_col_loop(r.it, line_number + 1, byte_pos)

\* Buffer::position_to_line_col
position_to_line_col(vbuf, byte_pos) ==
    line_col_loop(LineIterator_new(vbuf, 0), 0, byte_pos)

\* The while loop of position_to_lsp_position and its fall-through.  The
\* slice &line_content[..n] panics when n is inside a character.
RECURSIVE lsp_position_loop(_, _, _)
lsp_position_loop(it, line_number, byte_pos) ==
    LET r == LineIterator_next(it)
        line_start == r.ret.start
        line_content == r.ret.text
        line_end == line_start + Len(line_content)
        byte_offset == byte_pos - line_start
        cut == Min(byte_offset, Len(line_content))
    IN  IF ~r.ret.some
        THEN LineCol(IF line_number > 0 THEN line_number - 1 ELSE line_number, 0)
        ELSE IF byte_pos >= line_start /\ byte_pos <= line_end
        THEN IF is_char_boundary(line_content, cut)
             THEN LineCol(line_number, utf16_count(SubSeq(line_content, 1, cut)))
             ELSE Panic
        ELSE lsp_position_loop(r.it, line_number + 1, byte_pos)

\* Buffer::position_to_lsp_position
position_to_lsp_position(vbuf, byte_pos) ==
    lsp_position_loop(LineIterator_new(vbuf, 0), 0, byte_pos)

\* The loop `while current_line < line` of the two inverse conversions:
\* the iterator after `line` lines, or none = TRUE when they run out.
RECURSIVE skip_lines(_, _, _)
skip_lines(it, current_line, line) ==
    IF current_line >= line THEN [none |-> FALSE, it |-> it]
    ELSE LET r == LineIterator_next(it)
         IN  IF ~r.ret.some THEN [none |-> TRUE, it |-> r.it]
             ELSE skip_lines(r.it, current_line + 1, line)

\* Buffer::line_col_to_position
line_col_to_position(vbuf, line, character) ==
    LET sk == skip_lines(LineIterator_new(vbuf, 0), 0, line)
        r == LineIterator_next(sk.it)
    IN  IF sk.none \/ ~r.ret.some THEN Len(vbuf)
        ELSE r.ret.start + Min(character, Len(r.ret.text))

\* The loop over line_content.chars() of lsp_position_to_byte; i is the
\* 1-based index of the next character's leading byte.
RECURSIVE chars_loop(_, _, _, _, _)
chars_loop(line_content, i, current_utf16, byte_offset, utf16_offset) ==
    IF i > Len(line_content) \/ current_utf16 >= utf16_offset THEN byte_offset
    ELSE chars_loop(line_content, i + len_utf8(line_content[i]),
                    current_utf16 + len_utf16(line_content[i]),
                    byte_offset + len_utf8(line_content[i]), utf16_offset)

\* lsp_position_to_byte that counts every character as one UTF-16 unit.
lsp_position_to_byte_one_unit(vbuf, line, utf16_offset) ==
    LET sk == skip_lines(LineIterator_new(vbuf, 0), 0, line)
        r == LineIterator_next(sk.it)
        chars == {i \in 1..Len(r.ret.text) : ~IsCont(r.ret.text[i])}
        skipped == {i \in chars : Cardinality({j \in chars : j < i}) < utf16_offset}
        byte_offset == IF skipped = {} THEN 0
                       ELSE SetMax(skipped) + len_utf8(r.ret.text[SetMax(skipped)]) - 1
    IN  IF sk.none \/ ~r.ret.some THEN Len(vbuf)
        ELSE r.ret.start + Min(byte_offset, Len(r.ret.text))

\* Buffer::lsp_position_to_byte
lsp_position_to_byte(vbuf, line, utf16_offset) ==
    LET sk == skip_lines(LineIterator_new(vbuf, 0), 0, line)
        r == LineIterator_next(sk.it)
        byte_offset == chars_loop(r.ret.text, 1, 0, 0, utf16_offset)
    IN  IF sk.none \/ ~r.ret.some THEN Len(vbuf)
        ELSE r.ret.start + Min(byte_offset, Len(r.ret.text))

(***************************************************************************)
(* LineCache (line_cache, modelled from section 4.5): a map from byte      *)
(* offset to line number, here a function with a finite domain.            *)
(***************************************************************************)
\* BTreeMap::insert
cache_insert(cache, byte_offset, line_number) ==
    [o \in DOMAIN cache \cup {byte_offset} |->
        IF o = byte_offset THEN line_number ELSE cache[o]]

\* BTreeMap::entry(..).or_insert(..)
cache_or_insert(cache, byte_offset, line_number) ==
    IF byte_offset \in DOMAIN cache THEN cache
    ELSE cache_insert(cache, byte_offset, line_number)

\* LineCache::get_nearest_before: the entry with the largest offset before
\* byte_offset, or (0, 0) when there is none.
get_nearest_before(cache, byte_offset) ==
    LET below == {o \in DOMAIN cache : o < byte_offset}
    IN  IF below = {} THEN [byte_offset |-> 0, line_number |-> 0]
        ELSE [byte_offset |-> SetMax(below), line_number |-> cache[SetMax(below)]]

\* LineCache::handle_insertion: every entry at or after insert_byte moves
\* by the inserted bytes and newlines.
handle_insertion(cache, insert_byte, inserted_bytes, inserted_newlines) ==
    LET kept == {o \in DOMAIN cache : o < insert_byte}
        moved == {o \in DOMAIN cache : o >= insert_byte}
    IN  [o \in kept \cup {m + inserted_bytes : m \in moved} |->
            IF o \in kept THEN cache[o]
            ELSE cache[o - inserted_bytes] + inserted_newlines]

\* LineCache::handle_deletion: every entry at or after the end of the
\* deleted range moves back by the deleted bytes and newlines; an entry
\* inside the deleted range is not retained.
handle_deletion(cache, delete_start, deleted_bytes, deleted_newlines) ==
    LET kept == {o \in DOMAIN cache : o < delete_start}
        moved == {o \in DOMAIN cache : o >= delete_start + deleted_bytes}
    IN  [o \in kept \cup {m - deleted_bytes : m \in moved} |->
            IF o \in kept THEN cache[o]
            ELSE cache[o + deleted_bytes] - deleted_newlines]

\* LineCache::invalidate_from: every entry at or after byte_offset is dropped.
invalidate_from(cache, byte_offset) ==
    [o \in {k \in DOMAIN cache : k < byte_offset} |-> cache[o]]

\* LineCache::clear: every entry is dropped.
clear(cache) ==
    [o \in {} |-> 0]

(***************************************************************************)
(* Buffer::get_line_number (buffer.rs:472-545).  The result carries the    *)
(* cache after the call, the returned line and the path taken.             *)
(***************************************************************************)
\* The while loop of the scanning path.
RECURSIVE scan_lines(_, _, _, _)
scan_lines(it, cache, current_line, byte_offset) ==
    LET r == LineIterator_next(it)
        line_byte == r.ret.start
    IN  IF ~r.ret.some \/ line_byte > byte_offset
        THEN [cache |-> cache, ret |-> saturating_sub(current_line, 1), path |-> "scan"]
        ELSE LET cached == cache_insert(cache, line_byte, current_line)
             IN  IF line_byte = byte_offset
                 THEN [cache |-> cached, ret |-> current_line, path |-> "scan"]
                 ELSE scan_lines(r.it, cached, current_line + 1, byte_offset)

\* get_line_number that estimates from the threshold on (>= for >).
get_line_number_from_threshold(vbuf, cache, byte_offset) ==
    IF byte_offset \in DOMAIN cache
    THEN [cache |-> cache, ret |-> cache[byte_offset], path |-> "cached"]
    ELSE LET near == get_nearest_before(cache, byte_offset)
             start_byte == near.byte_offset
             start_line == near.line_number
             distance == saturating_sub(byte_offset, start_byte)
         IN  IF distance >= ESTIMATION_THRESHOLD
             THEN LET estimated_line_number ==
                          start_line + (distance \div AVERAGE_LINE_LENGTH)
                  IN  [cache |-> cache_insert(cache, byte_offset, estimated_line_number),
                       ret |-> estimated_line_number, path |-> "estimate"]
             ELSE scan_lines(LineIterator_new(vbuf, start_byte),
                             cache_or_insert(cache, start_byte, start_line),
                             start_line, byte_offset)

\* Buffer::get_line_number
get_line_number(vbuf, cache, byte_offset) ==
    IF byte_offset \in DOMAIN cache
    THEN [cache |-> cache, ret |-> cache[byte_offset], path |-> "cached"]
    ELSE LET near == get_nearest_before(cache, byte_offset)
             start_byte == near.byte_offset
             start_line == near.line_number
             distance == saturating_sub(byte_offset, start_byte)
         IN  IF distance > ESTIMATION_THRESHOLD
             THEN LET estimated_line_number ==
                          start_line + (distance \div AVERAGE_LINE_LENGTH)
                  IN  [cache |-> cache_insert(cache, byte_offset, estimated_line_number),
                       ret |-> estimated_line_number, path |-> "estimate"]
             ELSE scan_lines(LineIterator_new(vbuf, start_byte),
                             cache_or_insert(cache, start_byte, start_line),
                             start_line, byte_offset)

\* The while loop of populate_line_cache.
RECURSIVE populate_lines(_, _, _, _, _)
populate_lines(it, cache, current_line, lines_added, line_count) ==
    LET r == LineIterator_next(it)
    IN  IF ~r.ret.some \/ lines_added >= line_count
        THEN cache
        ELSE populate_lines(r.it, cache_or_insert(cache, r.ret.start, current_line),
                            current_line + 1, lines_added + 1, line_count)

\* Buffer::populate_line_cache (buffer.rs:550-577)
populate_line_cache(vbuf, cache, start_byte, line_count) ==
    LET g == get_line_number(vbuf, cache, start_byte)
        start_line == g.ret
    IN  [cache |-> populate_lines(LineIterator_new(vbuf, start_byte), g.cache,
                                  start_line, 0, line_count),
         ret |-> start_line]

(***************************************************************************)
(* AnsiParser (src/src/primitives/ansi.rs).  A character is its code       *)
(* point; a Style is kept as far as the BOLD modifier goes.                *)
(***************************************************************************)
ESC == 27
BEL == 7
LBracket == 91
RBracket == 93
Backslash == 92
Semicolon == 59
Digit1 == 49
LetterM == 109
LetterX == 120
Tilde == 126

\* Style::default
Style_default == [bold |-> FALSE]

\* AnsiParser::new
AnsiParser_new ==
    [current_style |-> Style_default, escape_buffer |-> <<>>, in_escape |-> FALSE]

\* char::is_ascii_alphabetic
is_ascii_alphabetic(ch) == ch \in 65..90 \/ ch \in 97..122

\* str::starts_with and str::ends_with
starts_with(t, prefix) ==
    Len(t) >= Len(prefix) /\ SubSeq(t, 1, Len(prefix)) = prefix
ends_with(t, suffix) ==
    Len(t) >= Len(suffix) /\ SubSeq(t, Len(t) - Len(suffix) + 1, Len(t)) = suffix

\* AnsiParser::is_escape_complete.  The CSI and the OSC branch return for
\* every buffer they are entered with.
is_escape_complete(escape_buffer) ==
    IF Len(escape_buffer) < 2 THEN FALSE
    ELSE IF starts_with(escape_buffer, <<ESC, LBracket>>)
    THEN is_ascii_alphabetic(escape_buffer[Len(escape_buffer)])
    ELSE IF starts_with(escape_buffer, <<ESC, RBracket>>)
    THEN \/ ends_with(escape_buffer, <<BEL>>)
         \/ ends_with(escape_buffer, <<ESC, Backslash>>)
    ELSE IF Len(escape_buffer) = 2
    THEN escape_buffer[2] # LBracket /\ escape_buffer[2] # RBracket
    ELSE Len(escape_buffer) > ESCAPE_LIMIT

\* str::split(';')
RECURSIVE split_params(_, _)
split_params(t, acc) ==
    IF t = <<>> THEN <<acc>>
    ELSE IF Head(t) = Semicolon THEN <<acc>> \o split_params(Tail(t), <<>>)
    ELSE split_params(Tail(t), Append(acc, Head(t)))

\* str::parse::<u8>: the value of a run of decimal digits up to 255, with
\* an optional plus sign, or None.
RECURSIVE decimal(_, _)
decimal(t, acc) ==
    IF t = <<>> THEN acc
    ELSE IF Head(t) \notin 48..57 \/ acc > 255 THEN None
    ELSE decimal(Tail(t), 10 * acc + (Head(t) - 48))

parse_u8(t) ==
    LET digits == IF t # <<>> /\ Head(t) = 43 THEN Tail(t) ELSE t
        v == IF digits = <<>> THEN None ELSE decimal(digits, 0)
    IN  IF v = None \/ v > 255 THEN None ELSE v

\* filter_map(|s| s.parse().ok()).collect()
RECURSIVE parsed_params(_)
parsed_params(parts) ==
    IF parts = <<>> THEN <<>>
    ELSE LET v == parse_u8(Head(parts))
         IN  (IF v = None THEN <<>> ELSE <<v>>) \o parsed_params(Tail(parts))

\* The while loop of parse_sgr_params; i is 0-indexed as in the source.
RECURSIVE sgr_loop(_, _, _)
sgr_loop(style, params, i) ==
    IF i >= Len(params) THEN style
    ELSE LET code == params[i + 1]
             n == Len(params)
             skip == IF code \in {38, 48} /\ i + 1 < n
                     THEN IF params[i + 2] = 5 /\ i + 2 < n THEN 2
                          ELSE IF params[i + 2] = 2 /\ i + 4 < n THEN 4
                          ELSE 0
                     ELSE 0
             styled == IF code = 0 THEN Style_default
                       ELSE IF code = 1 THEN [style EXCEPT !.bold = TRUE]
                       ELSE IF code \in {21, 22} THEN [style EXCEPT !.bold = FALSE]
                       ELSE style
         IN  sgr_loop(styled, params, i + skip + 1)

\* AnsiParser::parse_sgr_params
parse_sgr_params(style, params_str) ==
    IF params_str = <<>> THEN Style_default
    ELSE sgr_loop(style, parsed_params(split_params(params_str, <<>>)), 0)

\* AnsiParser::process_escape_sequence: the style after the sequence.
process_escape_sequence(p) ==
    IF ~starts_with(p.escape_buffer, <<ESC, LBracket>>) THEN p.current_style
    ELSE IF ~ends_with(p.escape_buffer, <<LetterM>>) THEN p.current_style
    ELSE parse_sgr_params(p.current_style,
                          SubSeq(p.escape_buffer, 3, Len(p.escape_buffer) - 1))

\* Option<Style>
NoStyle == [some |-> FALSE, style |-> Style_default]
SomeStyle(style) == [some |-> TRUE, style |-> style]

\* AnsiParser::parse_char
parse_char(p, ch) ==
    IF p.in_escape
    THEN LET pushed == [p EXCEPT !.escape_buffer = Append(@, ch)]
         IN  [parser |-> IF is_escape_complete(pushed.escape_buffer)
                         THEN [current_style |-> process_escape_sequence(pushed),
                               escape_buffer |-> <<>>, in_escape |-> FALSE]
                         ELSE pushed,
              ret |-> NoStyle]
    ELSE IF ch = ESC
    THEN [parser |-> [p EXCEPT !.in_escape = TRUE, !.escape_buffer = <<ch>>],
          ret |-> NoStyle]
    ELSE [parser |-> p, ret |-> SomeStyle(p.current_style)]

\* The for loop of strip_ansi_codes.
RECURSIVE strip_loop(_, _, _)
strip_loop(t, p, acc) ==
    IF t = <<>> THEN acc
    ELSE LET r == parse_char(p, Head(t))
         IN  strip_loop(Tail(t), r.parser,
                        IF r.ret.some THEN Append(acc, Head(t)) ELSE acc)

\* contains_ansi_codes
contains_ansi_codes(t) == \E i \in 1..Len(t) : t[i] = ESC

\* strip_ansi_codes
strip_ansi_codes(t) ==
    IF ~contains_ansi_codes(t) THEN t
    ELSE strip_loop(t, AnsiParser_new, <<>>)

(***************************************************************************)
(* The files of Session::save (src/src/session.rs:356-387).  A file is its *)
(* data and whether all of it has reached the disk.                        *)
(***************************************************************************)
NoFile == [exists |-> FALSE, data |-> <<>>, synced |-> TRUE]
File(data, synced) == [exists |-> TRUE, data |-> data, synced |-> synced]

\* No session saved yet and no save under way.  session is the file at the
\* session path as the running system sees it, session_disk the file a
\* restart would find there, tmp the file at temp_path.
NoFiles ==
    [session |-> NoFile, session_disk |-> NoFile, tmp |-> NoFile,
     pc |-> "idle", content |-> <<>>]

\* The sessions saved, and serde_json::to_string_pretty of one: a JSON
\* object, so that no proper prefix of it is a serialized session.
LBrace == 123
RBrace == 125
Sessions == {1, 2}
to_string_pretty(session) == <<LBrace, session, RBrace>>

\* The file holds one complete serialized session, all of it on disk.
IsCompleteSession(f) ==
    /\ f.exists
    /\ f.synced
    /\ \E session \in Sessions : f.data = to_string_pretty(session)

\* What a restart finds of a file: all of it when it was synced, and any
\* prefix of its data otherwise.
AfterCrash(f) ==
    IF ~f.exists \/ f.synced THEN {f}
    ELSE {File(SubSeq(f.data, 1, n), TRUE) : n \in 0..Len(f.data)}

(***************************************************************************)
(* State.                                                                  *)
(***************************************************************************)
VARIABLES
    content,      \* Buffer.virtual_buffer: the bytes of the current snapshot
    modified,     \* Buffer.modified
    file_path,    \* Buffer.file_path
    line_cache,   \* Buffer.line_cache.entries: byte offset -> line number
    iter,         \* a LineIterator handed out by Buffer::line_iterator
    born,         \* history: the content when iter was created
    chunks,       \* an OverlappingChunks stream
    range,        \* history: the [start, end) chunks was created over
    windows,      \* history: the ChunkInfo values chunks has yielded
    hooks,        \* history: the number of line cache hook calls so far
    parser,       \* an AnsiParser
    result,       \* the String strip_ansi_codes is building with parser
    fs,           \* the session file, its temporary file and Session::save's progress
    last          \* history: the last operation, its inputs and its result

vars ==
    <<content, modified, file_path, line_cache, iter, born, chunks, range, windows,
      hooks, parser, result, fs, last>>

\* No operation yet.
NoOp == [op |-> "init"]
\* Option<PathBuf>::None
NoPath == "None"
\* LineCache::new: no entries.
EmptyCache == [o \in {} |-> 0]
\* No line iterator handed out yet.
NoIter == [live |-> FALSE, snap |-> <<>>, pos |-> 0]
\* No stream created yet.
NoChunks == OverlappingChunks_new(iter_at(<<>>, 0), 0, 0, 1, 0)

\* Buffer::from_str(s): the state after construction.
from_str(s) ==
    /\ content = s
    /\ modified = FALSE
    /\ file_path = NoPath
    /\ line_cache = EmptyCache
    /\ iter = NoIter
    /\ born = <<>>
    /\ chunks = NoChunks
    /\ range = [start |-> 0, end |-> 0]
    /\ windows = <<>>
    /\ hooks = 0
    /\ parser = AnsiParser_new
    /\ result = <<>>
    /\ fs = NoFiles
    /\ last = NoOp

(***************************************************************************)
(* VirtualBuffer edits (virtual_buffer, modelled from sections 4.1 and     *)
(* 4.2): an edit swaps the current snapshot for a new one.                 *)
(***************************************************************************)
\* VirtualBuffer::insert
vb_insert(snap, pos, bytes) ==
    Slice(snap, 0, pos) \o bytes \o Slice(snap, pos, Len(snap))

\* VirtualBuffer::delete
vb_delete(snap, start, end) ==
    Slice(snap, 0, start) \o Slice(snap, end, Len(snap))

(***************************************************************************)
(* Reference reading of a content as lines, for stating the claims.        *)
(***************************************************************************)
(***************************************************************************)
(* Persistence (buffer.rs:124-143).  io is what the file system does to    *)
(* the call: "ok", or the step that fails.                                 *)
(***************************************************************************)
IoOutcomes == {"ok", "read_failed", "create_failed", "write_failed"}

\* save_to_file that clears the flag and sets the path before writing.
save_to_file_flag_first(mod, fp, path, io) ==
    [modified |-> FALSE, file_path |-> path,
     ret |-> IF io = "ok" THEN "Ok" ELSE "Err"]

\* Buffer::save_to_file: every `?` returns before the two assignments.
save_to_file(mod, fp, path, io) ==
    IF io = "ok"
    THEN [modified |-> FALSE, file_path |-> path, ret |-> "Ok"]
    ELSE [modified |-> mod, file_path |-> fp, ret |-> "Err"]

\* Buffer::save
save(mod, fp, io) ==
    IF fp # NoPath
    THEN save_to_file(mod, fp, fp, io)
    ELSE [modified |-> mod, file_path |-> fp, ret |-> "Err"]

\* VirtualBuffer::read(offset, len): the bytes at [offset, offset + len),
\* clamped to the snapshot; it does not fail.
vb_read(snap, offset, len) == Slice(snap, offset, offset + len)

\* slice_bytes that takes range.end for the number of bytes to read.
slice_bytes_end_as_len(vbuf, start, end) == vb_read(vbuf, start, end)

\* Buffer::slice_bytes(start..end)
slice_bytes(vbuf, start, end) == vb_read(vbuf, start, saturating_sub(end, start))

\* Buffer::slice(start..end)
slice(vbuf, start, end) ==
    from_utf8_lossy(vb_read(vbuf, start, saturating_sub(end, start)))

\* The offsets at which a line of s starts: 0 and every offset that follows
\* a newline (the buffer length too when s ends with a newline).
LineStarts(s) == {0} \cup {k \in 1..Len(s) : s[k] = NL}

\* The end offset of the line that starts at p: one past its newline, or
\* the length of s.
LineEnd(s, p) ==
    LET nls == {k \in (p + 1)..Len(s) : s[k] = NL}
    IN  IF nls = {} THEN Len(s) ELSE SetMin(nls)

\* The line of s that starts at offset p, as next() reports it.
RefLineAt(s, p) ==
    IF p >= Len(s) THEN NoLine
    ELSE SomeLine(p, from_utf8_lossy(Slice(s, p, LineEnd(s, p))))

\* The line of s that ends at offset p (the last line start before p).
RefLineBefore(s, p) ==
    IF p = 0 THEN NoLine
    ELSE RefLineAt(s, SetMax({k \in LineStarts(s) : k < p}))

(***************************************************************************)
(* Buffer operations as actions.                                           *)
(***************************************************************************)
LineBytes == {ByteA, NL}
\* The texts handed to Buffer::insert.
InsertTexts == {<<>>, <<ByteA>>, <<NL>>, <<ByteA, NL>>}

\* buffer.insert(pos, text) that leaves the modified flag alone.
Insert_keeps_flag(pos, text) ==
    /\ Len(content) + Len(text) <= MaxLen
    /\ IF Len(text) = 0
       THEN UNCHANGED content
       ELSE content' = vb_insert(content, pos, text)
    /\ last' = [op |-> "insert", pos |-> pos, text |-> text]
    /\ UNCHANGED <<modified, line_cache, iter, born, chunks, range, windows, hooks, file_path, parser, result, fs>>

\* buffer.insert(pos, text) that sets the modified flag before it looks at
\* the text.
Insert_marks_first(pos, text) ==
    /\ Len(content) + Len(text) <= MaxLen
    /\ IF Len(text) = 0
       THEN UNCHANGED content
       ELSE content' = vb_insert(content, pos, text)
    /\ modified' = TRUE
    /\ last' = [op |-> "insert", pos |-> pos, text |-> text]
    /\ UNCHANGED <<line_cache, iter, born, chunks, range, windows, hooks, file_path, parser, result, fs>>

\* buffer.insert(pos, text)
Insert(pos, text) ==
    /\ Len(content) + Len(text) <= MaxLen
    /\ IF Len(text) = 0
       THEN UNCHANGED <<content, modified>>
       ELSE /\ content' = vb_insert(content, pos, text)
            /\ modified' = TRUE
    /\ last' = [op |-> "insert", pos |-> pos, text |-> text]
    /\ UNCHANGED <<line_cache, iter, born, chunks, range, windows, hooks, file_path, parser, result, fs>>

\* buffer.delete(start..end) that also drops the cache entries from start on.
Delete_invalidates(start, end) ==
    /\ IF start >= end
       THEN UNCHANGED <<content, modified>>
       ELSE /\ content' = vb_delete(content, start, end)
            /\ modified' = TRUE
    /\ line_cache' = [o \in {k \in DOMAIN line_cache : k < start} |-> line_cache[o]]
    /\ last' = [op |-> "delete", start |-> start, end |-> end]
    /\ UNCHANGED <<iter, born, chunks, range, windows, hooks, file_path, parser, result, fs>>

\* buffer.delete(start..end)
Delete(start, end) ==
    /\ IF start >= end
       THEN UNCHANGED <<content, modified>>
       ELSE /\ content' = vb_delete(content, start, end)
            /\ modified' = TRUE
    /\ last' = [op |-> "delete", start |-> start, end |-> end]
    /\ UNCHANGED <<line_cache, iter, born, chunks, range, windows, hooks, file_path, parser, result, fs>>

\* iter = buffer.line_iterator(byte_pos)
LineIteratorAt(byte_pos) ==
    LET it == LineIterator_new(content, byte_pos)
    IN  /\ iter' = [live |-> TRUE, snap |-> it.snap, pos |-> it.pos]
        /\ born' = content
        /\ last' = [op |-> "line_iterator", byte_pos |-> byte_pos]
        /\ UNCHANGED <<content, modified, line_cache, chunks, range, windows, hooks, file_path, parser, result, fs>>

\* iter.next() on a cursor that follows the buffer's current snapshot
\* instead of the one it was created against.
IterNext_live ==
    /\ iter.live
    /\ LET r == LineIterator_next([iter EXCEPT !.snap = content])
       IN  /\ iter' = r.it
           /\ last' = [op |-> "next", ret |-> r.ret, after |-> last.op]
    /\ UNCHANGED <<content, modified, line_cache, born, chunks, range, windows, hooks, file_path, parser, result, fs>>

\* iter.next()
IterNext ==
    /\ iter.live
    /\ LET r == LineIterator_next(iter)
       IN  /\ iter' = r.it
           /\ last' = [op |-> "next", ret |-> r.ret, after |-> last.op]
    /\ UNCHANGED <<content, modified, line_cache, born, chunks, range, windows, hooks, file_path, parser, result, fs>>

\* iter.prev()
IterPrev ==
    /\ iter.live
    /\ LET r == LineIterator_prev(iter)
       IN  /\ iter' = r.it
           /\ last' = [op |-> "prev", ret |-> r.ret, after |-> last.op]
    /\ UNCHANGED <<content, modified, line_cache, born, chunks, range, windows, hooks, file_path, parser, result, fs>>

(***************************************************************************)
(* Spec: a buffer that is edited while a line iterator is in use.          *)
(***************************************************************************)
Init == \E s \in SeqsUpTo(LineBytes, MaxLen) : from_str(s)

Next ==
    \/ \E pos \in 0..Len(content), text \in InsertTexts : Insert(pos, text)
    \/ \E start \in 0..Len(content) : \E end \in start..Len(content) : Delete(start, end)
    \/ \E byte_pos \in 0..(Len(content) + 1) : LineIteratorAt(byte_pos)
    \/ IterNext
    \/ IterPrev

Spec == Init /\ [][Next]_vars

(***************************************************************************)
(* SpecLines: a line iterator over a buffer that is not edited.            *)
(***************************************************************************)
InitLines == \E s \in SeqsUpTo(LineBytes, MaxLineLen) : from_str(s)

NextLines ==
    \/ \E byte_pos \in 0..(Len(content) + 1) : LineIteratorAt(byte_pos)
    \/ IterNext
    \/ IterPrev

SpecLines == InitLines /\ [][NextLines]_vars

\* C5: when next() returns a line (s, text), an immediately following
\* prev() returns the same (s, text) and leaves the cursor at s; a second
\* prev() then returns the line immediately before it, or none when s = 0.
C5_NextThenPrev ==
    [][/\ (last.op = "next" /\ last.ret.some /\ last'.op = "prev")
            => (last'.ret = last.ret /\ iter'.pos = last.ret.start)
       /\ (last.op = "prev" /\ last.after = "next" /\ last.ret.some /\ last'.op = "prev")
            => last'.ret = RefLineBefore(born, last.ret.start)]_vars

\* C5 witness: prev() right after a next() that returned a line which is
\* not the first of the buffer.
C5_Witness ==
    /\ last.op = "prev"
    /\ last.after = "next"
    /\ last.ret.some
    /\ last.ret.start > 0
    /\ iter.pos = last.ret.start

\* C6: insert(pos, text) with pos <= len and non-empty text gives
\* old[0..pos] + text + old[pos..]; delete(a..b) with a < b <= len gives
\* old[0..a] + old[b..]; both leave the modified flag true.
C6_EditContent ==
    [][/\ (last'.op = "insert" /\ Len(last'.text) > 0)
            => /\ content' = SubSeq(content, 1, last'.pos) \o last'.text
                                \o SubSeq(content, last'.pos + 1, Len(content))
               /\ Len(content') = Len(content) + Len(last'.text)
               /\ modified'
       /\ (last'.op = "delete" /\ last'.start < last'.end)
            => /\ content' = SubSeq(content, 1, last'.start)
                                \o SubSeq(content, last'.end + 1, Len(content))
               /\ Len(content') = Len(content) - (last'.end - last'.start)
               /\ modified']_vars

\* C6 witness: a non-empty insert strictly inside the old content.
C6_Witness ==
    /\ last.op = "insert"
    /\ Len(last.text) > 0
    /\ last.pos > 0
    /\ last.pos + Len(last.text) < Len(content)
    /\ modified

\* C7: a line iterator created before an insert or delete keeps returning
\* the lines of the content as it was when the iterator was created, and an
\* iterator created after the edit starts in, and returns, the edited
\* content.
C7_SnapshotIsolation ==
    [][/\ last'.op = "line_iterator"
            => iter'.pos = SetMax({k \in LineStarts(content) :
                                      k <= Min(last'.byte_pos, Len(content))})
       /\ last'.op = "next" => last'.ret = RefLineAt(born, iter.pos)
       /\ last'.op = "prev" => last'.ret = RefLineBefore(born, iter.pos)]_vars

\* C7 witness: next() returned a line of the old content that the edited
\* buffer no longer holds at that place.
C7_Witness ==
    /\ last.op = "next"
    /\ last.ret.some
    /\ born # content
    /\ RefLineAt(content, last.ret.start) # last.ret

(***************************************************************************)
(* Regex search (buffer.rs:287-335) for a regex built from a literal with  *)
(* regex::escape: its matches are the occurrences of the literal.          *)
(***************************************************************************)
\* Regex::find_iter for the regex of a literal: the start offsets of the
\* leftmost non-overlapping occurrences at or after from, in order.
RECURSIVE find_iter(_, _, _)
find_iter(haystack, literal, from) ==
    LET hits == {i \in from..(Len(haystack) - Len(literal)) :
                     SubSeq(haystack, i + 1, i + Len(literal)) = literal}
    IN  IF hits = {} THEN <<>>
        ELSE <<SetMin(hits)>> \o find_iter(haystack, literal, SetMin(hits) + Len(literal))

\* The inner for loop of find_regex_streaming over the matches of one chunk:
\* the position of the first match accepted, or None.
RECURSIVE regex_chunk_scan(_, _, _, _)
regex_chunk_scan(chunk, mats, mat_len, end) ==
    IF mats = <<>> THEN None
    ELSE LET mat_start == Head(mats)
             match_end == mat_start + mat_len
             match_pos == chunk.absolute_pos + mat_start
         IN  IF match_end > chunk.valid_start /\ match_pos + mat_len <= end
             THEN match_pos
             ELSE regex_chunk_scan(chunk, Tail(mats), mat_len, end)

\* The outer for loop of find_regex_streaming over the chunks.
RECURSIVE regex_streaming_loop(_, _, _)
regex_streaming_loop(stream, literal, end) ==
    LET r == OverlappingChunks_next(stream)
        chunk == r.item
        found == regex_chunk_scan(chunk, find_iter(chunk.buffer, literal, 0),
                                  Len(literal), end)
    IN  IF ~chunk.some THEN None
        ELSE IF found # None THEN found
        ELSE regex_streaming_loop(r.oc, literal, end)

\* find_regex_streaming with no overlap kept between windows.
find_regex_streaming_no_overlap(vbuf, start, end, literal) ==
    IF start >= end
    THEN None
    ELSE regex_streaming_loop(
             OverlappingChunks_new(iter_at(vbuf, start), start, end,
                                   REGEX_CHUNK_SIZE, 0),
             literal, end)

\* Buffer::find_regex_streaming
find_regex_streaming(vbuf, start, end, literal) ==
    IF start >= end
    THEN None
    ELSE regex_streaming_loop(
             OverlappingChunks_new(iter_at(vbuf, start), start, end,
                                   REGEX_CHUNK_SIZE, REGEX_OVERLAP),
             literal, end)

\* Buffer::find_next_regex
find_next_regex(vbuf, literal, start_pos) ==
    LET buffer_len == Len(vbuf)
        fwd == IF start_pos < buffer_len
               THEN find_regex_streaming(vbuf, start_pos, buffer_len, literal)
               ELSE None
    IN  IF fwd # None THEN fwd
        ELSE IF start_pos > 0
        THEN find_regex_streaming(vbuf, 0, start_pos, literal)
        ELSE None

(***************************************************************************)
(* SpecSearch: literal search on a buffer of any content.                  *)
(***************************************************************************)
SearchBytes == {ByteA, ByteB}
Patterns == SeqsUpTo(SearchBytes, MaxPatLen)

InitSearch == \E s \in SeqsUpTo(SearchBytes, MaxSearchLen) : from_str(s)

\* buffer.find_next(pattern, start_pos).  find_next takes &self and changes
\* nothing, so one call per behaviour reaches every result it can give.
FindNext(pattern, start_pos) ==
    /\ last.op = "init"
    /\ last' = [op |-> "find_next", pattern |-> pattern, start_pos |-> start_pos,
                ret |-> find_next(content, pattern, start_pos)]
    /\ UNCHANGED <<content, modified, line_cache, iter, born, chunks, range, windows, hooks, file_path, parser, result, fs>>

NextSearch ==
    \E pattern \in Patterns, start_pos \in 0..(Len(content) + 1) :
        FindNext(pattern, start_pos)

SpecSearch == InitSearch /\ [][NextSearch]_vars

\* The offsets at which pattern occurs in s, by exhaustive scan.
Occurrences(s, pattern) ==
    {i \in 0..(Len(s) - Len(pattern)) : SubSeq(s, i + 1, i + Len(pattern)) = pattern}

\* C1: for every content and non-empty pattern, also one longer than the
\* search window, find_next(P, 0) is the first occurrence of P found by an
\* exhaustive scan, and none when P does not occur.
C1_FindNextFromStart ==
    (last.op = "find_next" /\ last.start_pos = 0 /\ Len(last.pattern) > 0)
        => last.ret = (IF Occurrences(content, last.pattern) = {} THEN None
                       ELSE SetMin(Occurrences(content, last.pattern)))

\* C1 witness: a pattern longer than the window found past the first window.
C1_Witness ==
    /\ last.op = "find_next"
    /\ last.start_pos = 0
    /\ Len(last.pattern) > CHUNK_SIZE
    /\ last.ret >= CHUNK_SIZE

\* C2: for start in [0, len], find_next(P, start) is the first match in
\* cyclic order: the smallest occurrence >= start if there is one, otherwise
\* the smallest occurrence of the buffer, and none only if P occurs nowhere.
C2_FindNextCyclic ==
    (last.op = "find_next" /\ Len(last.pattern) > 0 /\ last.start_pos <= Len(content))
        => LET occ == Occurrences(content, last.pattern)
               after == {i \in occ : i >= last.start_pos}
           IN  last.ret = (IF after # {} THEN SetMin(after)
                           ELSE IF occ # {} THEN SetMin(occ)
                           ELSE None)

(***************************************************************************)
(* SpecChunks: an OverlappingChunks stream over [start, end) of a buffer,  *)
(* driven one next() at a time.                                            *)
(***************************************************************************)
InitChunks ==
    \E s \in SeqsUpTo(SearchBytes, MaxStreamLen) :
        \E start \in 0..Len(s), chunk_size \in 1..MaxChunkSize, overlap \in 0..MaxOverlap :
            \E end \in 0..Len(s) :
                /\ content = s
                /\ modified = FALSE
                /\ file_path = NoPath
                /\ line_cache = EmptyCache
                /\ iter = NoIter
                /\ born = <<>>
                /\ chunks = OverlappingChunks_new(iter_at(s, start), start, end,
                                                  chunk_size, overlap)
                /\ range = [start |-> start, end |-> end]
                /\ windows = <<>>
                /\ hooks = 0
                /\ parser = AnsiParser_new
                /\ result = <<>>
                /\ fs = NoFiles
                /\ last = NoOp

\* chunks.next()
ChunksNext ==
    LET r == OverlappingChunks_next(chunks)
    IN  /\ chunks' = r.oc
        /\ windows' = IF r.item.some THEN Append(windows, r.item) ELSE windows
        /\ last' = [op |-> "chunks_next", ret |-> r.item]
        /\ UNCHANGED <<content, modified, line_cache, iter, born, range, hooks, file_path,
                       parser, result, fs>>

NextChunks == ChunksNext

SpecChunks == InitChunks /\ [][NextChunks]_vars

\* The stream has returned None: the for loop over its windows is over.
StreamDone == last.op = "chunks_next" /\ ~last.ret.some

\* The consumer rule of section 4.4 applied to window w for an occurrence of
\* a pattern of n bytes at absolute offset i: the window holds the match,
\* its local end lies past valid_start and its absolute end is within end.
Accepts(w, i, n) ==
    LET j == i - w.absolute_pos
    IN  /\ j >= 0
        /\ j + n <= Len(w.buffer)
        /\ SubSeq(w.buffer, j + 1, j + n) = Slice(content, i, i + n)
        /\ j + n > w.valid_start
        /\ w.absolute_pos + j + n <= range.end

\* C3: for any chunk_size >= 1 and overlap >= |P| - 1, every occurrence of P
\* inside [start, end) is accepted by the consumer rule in exactly one
\* window of the stream.
C3_EachOccurrenceOnce ==
    StreamDone =>
        \A n \in 1..(chunks.overlap + 1) :
            \A i \in range.start..(range.end - n) :
                Cardinality({k \in 1..Len(windows) : Accepts(windows[k], i, n)}) = 1

\* The windows whose valid zone holds absolute offset i.
ValidZoneOf(i) ==
    {k \in 1..Len(windows) :
        /\ windows[k].absolute_pos + windows[k].valid_start <= i
        /\ i < windows[k].absolute_pos + Len(windows[k].buffer)}

\* C4: streaming [0, L) with chunk_size >= 1 and overlap >= 1 puts every
\* offset of [0, L) in the valid zone of exactly one window.
C4_ValidZonesCoverOnce ==
    (StreamDone /\ chunks.overlap >= 1 /\ range.start = 0 /\ range.end = Len(content))
        => \A i \in 0..(Len(content) - 1) : Cardinality(ValidZoneOf(i)) = 1


(***************************************************************************)
(* SpecCache: line number queries on a buffer that is not edited.          *)
(* SpecHooks: the same with the line cache hooks called in between.        *)
(***************************************************************************)
\* The number of newline bytes in s[0..byte_offset).
NewlinesBefore(s, byte_offset) ==
    Cardinality({i \in 1..Min(byte_offset, Len(s)) : s[i] = NL})

\* Every entry of cache is the start of a line of s with its exact number.
CacheExact(cache, s) ==
    \A o \in DOMAIN cache : o \in LineStarts(s) /\ cache[o] = NewlinesBefore(s, o)

\* buffer.get_line_number(byte_offset)
GetLineNumber(byte_offset) ==
    LET r == get_line_number(content, line_cache, byte_offset)
    IN  /\ line_cache' = r.cache
        /\ last' = [op |-> "get_line_number", byte_offset |-> byte_offset,
                    ret |-> r.ret, path |-> r.path]
        /\ UNCHANGED <<content, modified, iter, born, chunks, range, windows, hooks, file_path, parser, result, fs>>

\* buffer.populate_line_cache(start_byte, line_count)
PopulateLineCache(start_byte, line_count) ==
    LET r == populate_line_cache(content, line_cache, start_byte, line_count)
    IN  /\ line_cache' = r.cache
        /\ last' = [op |-> "populate_line_cache", start_byte |-> start_byte,
                    line_count |-> line_count, ret |-> r.ret]
        /\ UNCHANGED <<content, modified, iter, born, chunks, range, windows, hooks, file_path, parser, result, fs>>

\* handle_line_cache_insertion with its first two arguments exchanged.
HandleLineCacheInsertion_swapped(insert_byte, inserted_bytes, inserted_newlines) ==
    /\ hooks < MaxHooks
    /\ hooks' = hooks + 1
    /\ line_cache' = handle_insertion(line_cache, inserted_bytes, insert_byte,
                                      inserted_newlines)
    /\ last' = [op |-> "handle_insertion", x |-> insert_byte, b |-> inserted_bytes,
                n |-> inserted_newlines]
    /\ UNCHANGED <<content, modified, iter, born, chunks, range, windows, file_path, parser, result, fs>>

\* buffer.handle_line_cache_insertion(insert_byte, inserted_bytes, inserted_newlines)
HandleLineCacheInsertion(insert_byte, inserted_bytes, inserted_newlines) ==
    /\ hooks < MaxHooks
    /\ hooks' = hooks + 1
    /\ line_cache' = handle_insertion(line_cache, insert_byte, inserted_bytes,
                                      inserted_newlines)
    /\ last' = [op |-> "handle_insertion", x |-> insert_byte, b |-> inserted_bytes,
                n |-> inserted_newlines]
    /\ UNCHANGED <<content, modified, iter, born, chunks, range, windows, file_path, parser, result, fs>>

\* buffer.handle_line_cache_deletion that hands the cache the end of the
\* deleted range in place of its start.
HandleLineCacheDeletion_from_end(delete_start, deleted_bytes, deleted_newlines) ==
    /\ hooks < MaxHooks
    /\ \A o \in DOMAIN line_cache :
           o >= delete_start + deleted_bytes => line_cache[o] >= deleted_newlines
    /\ hooks' = hooks + 1
    /\ line_cache' = handle_deletion(line_cache, 0, delete_start + deleted_bytes,
                                     deleted_newlines)
    /\ last' = [op |-> "handle_deletion", x |-> delete_start, b |-> deleted_bytes,
                n |-> deleted_newlines]
    /\ UNCHANGED <<content, modified, iter, born, chunks, range, windows, file_path, parser, result, fs>>

\* buffer.handle_line_cache_deletion(delete_start, deleted_bytes, deleted_newlines).
\* The newlines of a deleted range precede every entry behind it, so no
\* entry behind it has a smaller line number.
HandleLineCacheDeletion(delete_start, deleted_bytes, deleted_newlines) ==
    /\ hooks < MaxHooks
    /\ \A o \in DOMAIN line_cache :
           o >= delete_start + deleted_bytes => line_cache[o] >= deleted_newlines
    /\ hooks' = hooks + 1
    /\ line_cache' = handle_deletion(line_cache, delete_start, deleted_bytes,
                                     deleted_newlines)
    /\ last' = [op |-> "handle_deletion", x |-> delete_start, b |-> deleted_bytes,
                n |-> deleted_newlines]
    /\ UNCHANGED <<content, modified, iter, born, chunks, range, windows, file_path, parser, result, fs>>

InitCache == \E s \in SeqsUpTo(LineBytes, MaxCacheLen) : from_str(s)

NextCache ==
    \/ \E byte_offset \in 0..MaxQuery : GetLineNumber(byte_offset)
    \/ \E start_byte \in 0..MaxQuery, line_count \in 0..MaxPopulate :
           PopulateLineCache(start_byte, line_count)

SpecCache == InitCache /\ [][NextCache]_vars

NextHooks ==
    \/ \E byte_offset \in 0..MaxQuery : GetLineNumber(byte_offset)
    \/ \E x \in 0..(MaxHookLen + 1), b \in 1..MaxHookBytes :
           \E n \in 0..b : HandleLineCacheInsertion(x, b, n)
    \/ \E x \in 0..(MaxHookLen + 1), b \in 1..MaxHookBytes :
           \E n \in 0..b : HandleLineCacheDeletion(x, b, n)

\* The buffers of SpecHooks hold newlines only: every offset up to the
\* length is then the start of a line, which gives the densest caches.
InitHooks == \E s \in SeqsUpTo({NL}, MaxHookLen) : from_str(s)

SpecHooks == InitHooks /\ [][NextHooks]_vars

C9_ScanIsExact ==
    [][(/\ last'.op = "get_line_number"
        /\ last'.byte_offset <= Len(content)
        /\ last'.byte_offset \notin DOMAIN line_cache
        /\ last'.byte_offset - get_nearest_before(line_cache, last'.byte_offset).byte_offset
               <= ESTIMATION_THRESHOLD
        /\ CacheExact(line_cache, content))
       => (/\ last'.ret = NewlinesBefore(content, last'.byte_offset)
           /\ CacheExact(line_cache', content))]_vars

\* C10: a query that is not cached and lies more than the threshold after
\* the nearest entry (o, l) before it returns l + (byte_offset - o) / 80
\* without scanning and adds exactly the entry (byte_offset, estimate); at
\* the threshold itself it scans.
C10_EstimateBeyondThreshold ==
    [][(last'.op = "get_line_number" /\ last'.byte_offset \notin DOMAIN line_cache) =>
          LET near == get_nearest_before(line_cache, last'.byte_offset)
              distance == last'.byte_offset - near.byte_offset
              estimate == near.line_number + (distance \div AVERAGE_LINE_LENGTH)
          IN  /\ distance > ESTIMATION_THRESHOLD =>
                    /\ last'.ret = estimate
                    /\ last'.path = "estimate"
                    /\ DOMAIN line_cache' = DOMAIN line_cache \cup {last'.byte_offset}
                    /\ line_cache'[last'.byte_offset] = estimate
                    /\ \A o \in DOMAIN line_cache : line_cache'[o] = line_cache[o]
              /\ distance = ESTIMATION_THRESHOLD => last'.path = "scan"]_vars

\* A query has been estimated from an entry other than the start of the
\* buffer, inside the buffer, and its estimate is cached.
C10_Witness ==
    /\ last.op = "get_line_number"
    /\ last.path = "estimate"
    /\ last.byte_offset <= Len(content)
    /\ last.byte_offset \in DOMAIN line_cache
    /\ line_cache[last.byte_offset] = last.ret
    /\ last.ret # NewlinesBefore(content, last.byte_offset)
    /\ \E o \in DOMAIN line_cache : o > 0 /\ o < last.byte_offset


\* C11: on an unedited buffer the line cache stays monotonic under
\* get_line_number and populate_line_cache: of two cached entries the one at
\* the larger offset never has the smaller line number.
C11_CacheMonotonic ==
    \A o1, o2 \in DOMAIN line_cache : o1 < o2 => line_cache[o1] <= line_cache[o2]


(***************************************************************************)
(* SpecStale: line number queries on a buffer that receives one edit, any  *)
(* number of edits of nothing, and no hook call.                           *)
(***************************************************************************)
NextStale ==
    \/ \E byte_offset \in 0..MaxQuery : GetLineNumber(byte_offset)
    \/ \E pos \in 0..Len(content), text \in InsertTexts :
           (~modified \/ Len(text) = 0) /\ Insert(pos, text)
    \/ \E start, end \in 0..Len(content) :
           (~modified \/ start >= end) /\ Delete(start, end)

SpecStale == Init /\ [][NextStale]_vars

\* C12: Buffer.insert and Buffer.delete leave the line cache as it was, and
\* a query at an offset cached before the edit still returns the line number
\* cached before the edit.
C12_EditsLeaveCache ==
    [][(last'.op = "insert" \/ last'.op = "delete") =>
          /\ line_cache' = line_cache
          /\ \A o \in DOMAIN line_cache :
                 get_line_number(content', line_cache', o).ret = line_cache[o]]_vars

\* An edit has changed the content and left a cached entry that no longer
\* gives the number of newlines before its offset.
C12_Witness ==
    /\ last.op \in {"insert", "delete"}
    /\ modified
    /\ \E o \in DOMAIN line_cache :
           /\ o <= Len(content)
           /\ line_cache[o] # NewlinesBefore(content, o)
           /\ get_line_number(content, line_cache, o).ret = line_cache[o]


(***************************************************************************)
(* SpecChars: the boundary and position functions applied to a buffer of   *)
(* valid UTF-8 that is not edited.                                         *)
(***************************************************************************)
\* a, newline, U+00E9 (two bytes), U+1F600 (four bytes, two UTF-16 units)
Chars == {<<ByteA>>, <<NL>>, <<195, 169>>, <<240, 159, 152, 128>>}

RECURSIVE Flatten(_)
Flatten(cs) == IF cs = <<>> THEN <<>> ELSE Head(cs) \o Flatten(Tail(cs))

Utf8Contents == {Flatten(cs) : cs \in SeqsUpTo(Chars, MaxChars)}

\* str::is_char_boundary
IsCharBoundary(s, p) ==
    p = 0 \/ p = Len(s) \/ (p < Len(s) /\ ~IsCont(s[p + 1]))

InitChars == \E s \in Utf8Contents : from_str(s)

\* buffer.prev_char_boundary(pos)
PrevCharBoundary(pos) ==
    /\ last' = [op |-> "prev_char_boundary", pos |-> pos,
                ret |-> prev_char_boundary(content, pos)]
    /\ UNCHANGED <<content, modified, line_cache, iter, born, chunks, range, windows, hooks, file_path, parser, result, fs>>

\* buffer.next_char_boundary(pos)
NextCharBoundary(pos) ==
    /\ last' = [op |-> "next_char_boundary", pos |-> pos,
                ret |-> next_char_boundary(content, pos)]
    /\ UNCHANGED <<content, modified, line_cache, iter, born, chunks, range, windows, hooks, file_path, parser, result, fs>>

NextChars ==
    \/ \E pos \in 0..(Len(content) + 1) : PrevCharBoundary(pos)
    \/ \E pos \in 0..(Len(content) + 1) : NextCharBoundary(pos)

SpecChars == InitChars /\ [][NextChars]_vars

\* C13 as stated: for every character boundary p in [0, len],
\* prev_char_boundary(next_char_boundary(p)) = p.
C13_RoundTrip ==
    [][(/\ last.op = "next_char_boundary"
        /\ last.pos <= Len(content)
        /\ IsCharBoundary(content, last.pos)
        /\ last'.op = "prev_char_boundary"
        /\ last'.pos = last.ret)
       => last'.ret = last.pos]_vars

\* C13 amended: the round trip holds for every character boundary p < len
\* (and in the empty buffer); at p = len > 0 next_char_boundary stays at len
\* and prev_char_boundary returns the start of the last character.
C13_RoundTripBeforeEnd ==
    [][(/\ last.op = "next_char_boundary"
        /\ last.pos <= Len(content)
        /\ IsCharBoundary(content, last.pos)
        /\ last'.op = "prev_char_boundary"
        /\ last'.pos = last.ret)
       => /\ (last.pos < Len(content) \/ Len(content) = 0) => last'.ret = last.pos
          /\ (last.pos = Len(content) /\ Len(content) > 0) =>
                /\ last.ret = Len(content)
                /\ last'.ret = SetMax({k \in 0..(Len(content) - 1) :
                                          IsCharBoundary(content, k)})]_vars

\* The round trip has been made over a four-byte character that is not the
\* first of the buffer.
C13_Witness ==
    /\ last.op = "prev_char_boundary"
    /\ last.ret > 0
    /\ last.pos = last.ret + 4
    /\ last.pos <= Len(content)
    /\ next_char_boundary(content, last.ret) = last.pos


(***************************************************************************)
(* SpecPos: one position conversion applied to a buffer of valid UTF-8.    *)
(* The conversions take &self and leave the buffer as it is, so one call   *)
(* per behaviour covers them.                                              *)
(***************************************************************************)
\* buffer.position_to_line_col(byte_pos)
PositionToLineCol(byte_pos) ==
    /\ last' = [op |-> "position_to_line_col", byte_pos |-> byte_pos,
                ret |-> position_to_line_col(content, byte_pos)]
    /\ UNCHANGED <<content, modified, line_cache, iter, born, chunks, range, windows, hooks, file_path, parser, result, fs>>

\* buffer.position_to_lsp_position(byte_pos)
PositionToLspPosition(byte_pos) ==
    /\ last' = [op |-> "position_to_lsp_position", byte_pos |-> byte_pos,
                ret |-> position_to_lsp_position(content, byte_pos)]
    /\ UNCHANGED <<content, modified, line_cache, iter, born, chunks, range, windows, hooks, file_path, parser, result, fs>>

\* buffer.line_col_to_position(line, character)
LineColToPosition(line, character) ==
    /\ last' = [op |-> "line_col_to_position", line |-> line, character |-> character,
                ret |-> line_col_to_position(content, line, character)]
    /\ UNCHANGED <<content, modified, line_cache, iter, born, chunks, range, windows, hooks, file_path, parser, result, fs>>

\* buffer.lsp_position_to_byte(line, utf16_offset)
LspPositionToByte(line, utf16_offset) ==
    /\ last' = [op |-> "lsp_position_to_byte", line |-> line, character |-> utf16_offset,
                ret |-> lsp_position_to_byte(content, line, utf16_offset)]
    /\ UNCHANGED <<content, modified, line_cache, iter, born, chunks, range, windows, hooks, file_path, parser, result, fs>>

NextPos ==
    /\ last.op = "init"
    /\ \/ \E byte_pos \in 0..(Len(content) + 1) : PositionToLineCol(byte_pos)
       \/ \E byte_pos \in 0..(Len(content) + 1) : PositionToLspPosition(byte_pos)
       \/ \E line \in 0..(MaxChars + 1), character \in 0..(Len(content) + 1) :
              LineColToPosition(line, character)
       \/ \E line \in 0..(MaxChars + 1), utf16_offset \in 0..(Len(content) + 1) :
              LspPositionToByte(line, utf16_offset)

SpecPos == InitChars /\ [][NextPos]_vars

\* The start offsets of the lines the line iterator yields, and the start
\* of the l-th of them.
IterLineStarts(s) == {k \in 0..(Len(s) - 1) : k = 0 \/ s[k] = NL}
StartOfLine(s, l) ==
    CHOOSE k \in IterLineStarts(s) :
        Cardinality({j \in IterLineStarts(s) : j < k}) = l

\* The offset of the newline that ends the line starting at k, or the
\* length of s when that line has none.
TerminatorOf(s, k) ==
    LET nls == {i \in k..(Len(s) - 1) : s[i + 1] = NL}
    IN  IF nls = {} THEN Len(s) ELSE SetMin(nls)

\* C14: for every character boundary p in [0, len], lsp_position_to_byte of
\* the pair position_to_lsp_position(p) returns is p.
C14_LspRoundTrip ==
    (/\ last.op = "position_to_lsp_position"
     /\ last.byte_pos <= Len(content)
     /\ IsCharBoundary(content, last.byte_pos))
    => /\ ~last.ret.panic
       /\ lsp_position_to_byte(content, last.ret.line, last.ret.character)
              = last.byte_pos

\* The position converted lies behind a four-byte character on a line that
\* is not the first, and the round trip returns it.
C14_Witness ==
    /\ last.op = "position_to_lsp_position"
    /\ last.byte_pos <= Len(content)
    /\ ~last.ret.panic
    /\ last.ret.line >= 1
    /\ last.ret.character >= 2
    /\ position_to_line_col(content, last.byte_pos).character = last.ret.character + 2
    /\ lsp_position_to_byte(content, last.ret.line, last.ret.character) = last.byte_pos

\* C15: the four conversions return a result for every input.
C15_NeverFails ==
    /\ last.op \in {"position_to_line_col", "position_to_lsp_position"}
          => ~last.ret.panic
    /\ last.op \in {"line_col_to_position", "lsp_position_to_byte"}
          => last.ret \in 0..Len(content)

\* C16: for every p <= len, position_to_line_col(p) is (k, p - s) with k the
\* number of newline bytes before p and s the start of line k.
C16_LineColOfPosition ==
    (last.op = "position_to_line_col" /\ last.byte_pos <= Len(content))
    => LET p == last.byte_pos
           s == SetMax({0} \cup {i \in 1..p : content[i] = NL})
       IN  last.ret = LineCol(NewlinesBefore(content, p), p - s)

\* C17: the inverse conversions return len when line l does not exist, and
\* otherwise an offset from the start of line l up to its terminating
\* newline (len when it has none).
C17_ClampToLine ==
    last.op \in {"line_col_to_position", "lsp_position_to_byte"}
    => IF last.line >= Cardinality(IterLineStarts(content))
       THEN last.ret = Len(content)
       ELSE LET k == StartOfLine(content, last.line)
            IN  last.ret >= k /\ last.ret <= TerminatorOf(content, k)


(***************************************************************************)
(* SpecWords: the word boundary functions applied to a buffer.             *)
(***************************************************************************)
\* a, space, and the two bytes of U+00E9
WordBytes == {ByteA, 32, 195, 169}

InitWords == \E s \in SeqsUpTo(WordBytes, MaxWordLen) : from_str(s)

\* buffer.prev_word_boundary(pos)
PrevWordBoundary(pos) ==
    /\ last' = [op |-> "prev_word_boundary", pos |-> pos,
                ret |-> prev_word_boundary(content, pos)]
    /\ UNCHANGED <<content, modified, line_cache, iter, born, chunks, range, windows, hooks, file_path, parser, result, fs>>

\* buffer.next_word_boundary(pos)
NextWordBoundary(pos) ==
    /\ last' = [op |-> "next_word_boundary", pos |-> pos,
                ret |-> next_word_boundary(content, pos)]
    /\ UNCHANGED <<content, modified, line_cache, iter, born, chunks, range, windows, hooks, file_path, parser, result, fs>>

NextWords ==
    \/ \E pos \in 0..(Len(content) + 1) : PrevWordBoundary(pos)
    \/ \E pos \in 0..(Len(content) + 1) : NextWordBoundary(pos)

SpecWords == InitWords /\ [][NextWords]_vars

\* A word byte as the claim classifies it: an ASCII letter, an ASCII digit
\* or the underscore.
AsciiWord(byte) ==
    byte \in 48..57 \/ byte \in 65..90 \/ byte \in 97..122 \/ byte = 95

\* C18: prev_word_boundary(pos) is the largest r < pos where a word starts
\* (byte r a word byte, byte r - 1 not, or r = 0), 0 when there is none;
\* next_word_boundary(pos) is the smallest r > pos where a word ends (byte
\* r - 1 a word byte, byte r not), len when there is none.
C18_WordBoundaries ==
    /\ (last.op = "prev_word_boundary" /\ last.pos <= Len(content)) =>
          LET starts == {r \in 0..(last.pos - 1) :
                            /\ AsciiWord(content[r + 1])
                            /\ (r = 0 \/ ~AsciiWord(content[r]))}
          IN  last.ret = IF starts = {} THEN 0 ELSE SetMax(starts)
    /\ (last.op = "next_word_boundary" /\ last.pos <= Len(content)) =>
          LET ends == {r \in (last.pos + 1)..(Len(content) - 1) :
                          /\ AsciiWord(content[r])
                          /\ ~AsciiWord(content[r + 1])}
          IN  last.ret = IF ends = {} THEN Len(content) ELSE SetMin(ends)


\* C19: when P occurs exactly once, at p, find_next(P, start) returns p for
\* every start in [0, len].
C19_SingleOccurrence ==
    (/\ last.op = "find_next"
     /\ last.start_pos <= Len(content)
     /\ Cardinality(Occurrences(content, last.pattern)) = 1
     /\ Len(last.pattern) > 0)
    => last.ret \in Occurrences(content, last.pattern)

(***************************************************************************)
(* SpecFindAll: the loop that collects every match with find_next          *)
(* (buffer.rs:1123-1128): search_from = 0; while find_next returns         *)
(* found_at, push it and continue from found_at + 1.  A round is followed  *)
(* while the offsets collected are no more than the buffer has bytes.      *)
(***************************************************************************)
\* let mut search_from = 0
StartFindAll(pattern) ==
    /\ last.op = "init"
    /\ last' = [op |-> "find_all", pattern |-> pattern, search_from |-> 0,
                streaming_positions |-> <<>>, done |-> FALSE]
    /\ UNCHANGED <<content, modified, line_cache, iter, born, chunks, range, windows, hooks, file_path, parser, result, fs>>

\* One round of the while loop.
FindAllStep ==
    /\ last.op = "find_all"
    /\ ~last.done
    /\ Len(last.streaming_positions) <= Len(content)
    /\ LET found_at == find_next(content, last.pattern, last.search_from)
       IN  last' = IF found_at = None
                   THEN [last EXCEPT !.done = TRUE]
                   ELSE [last EXCEPT !.streaming_positions = Append(@, found_at),
                                     !.search_from = found_at + 1]
    /\ UNCHANGED <<content, modified, line_cache, iter, born, chunks, range, windows, hooks, file_path, parser, result, fs>>

NextFindAll ==
    \/ \E pattern \in Patterns : StartFindAll(pattern)
    \/ FindAllStep

SpecFindAll == InitSearch /\ [][NextFindAll]_vars

\* C20: for a non-empty P the offsets the loop collects are strictly
\* increasing (so that no round repeats an earlier one and the loop ends),
\* and when it has ended they are exactly the occurrences of P.
C20_FindAllOccurrences ==
    (last.op = "find_all" /\ Len(last.pattern) > 0) =>
        /\ \A i, j \in 1..Len(last.streaming_positions) :
               i < j => last.streaming_positions[i] < last.streaming_positions[j]
        /\ last.done =>
               {last.streaming_positions[i] : i \in 1..Len(last.streaming_positions)}
                   = Occurrences(content, last.pattern)


\* C21: a line iterator created at byte offset b (clamped to len) stands at
\* the start s of the line containing b: 0, or one past the nearest newline
\* strictly before b; when s < len its first next() returns s and the bytes
\* from s through the terminating newline or the end of the buffer.
C21_IteratorAtLineStart ==
    [][/\ last'.op = "line_iterator" =>
            LET b == Min(last'.byte_pos, Len(content))
            IN  iter'.pos = SetMax({0} \cup {k \in 1..b : content[k] = NL})
       /\ (last.op = "line_iterator" /\ last'.op = "next" /\ born = content
             /\ iter.pos < Len(content)) =>
            last'.ret = SomeLine(iter.pos,
                                 Slice(content, iter.pos, LineEnd(content, iter.pos)))]_vars

\* The first next() of a new iterator has returned a whole line that is
\* neither the first nor the last of the buffer.
C21_Witness ==
    /\ last.op = "next"
    /\ last.after = "line_iterator"
    /\ last.ret.some
    /\ last.ret.start > 0
    /\ Len(last.ret.text) >= 2
    /\ last.ret.start + Len(last.ret.text) < Len(content)


(***************************************************************************)
(* SpecSlice: one read of a range of a buffer of valid UTF-8.              *)
(***************************************************************************)
\* buffer.slice(start..end)
SliceText(start, end) ==
    /\ last' = [op |-> "slice", start |-> start, end |-> end,
                ret |-> slice(content, start, end)]
    /\ UNCHANGED <<content, modified, line_cache, iter, born, chunks, range, windows, hooks, file_path, parser, result, fs>>

\* buffer.slice_bytes(start..end)
SliceBytes(start, end) ==
    /\ last' = [op |-> "slice_bytes", start |-> start, end |-> end,
                ret |-> slice_bytes(content, start, end)]
    /\ UNCHANGED <<content, modified, line_cache, iter, born, chunks, range, windows, hooks, file_path, parser, result, fs>>

NextSlice ==
    /\ last.op = "init"
    /\ \/ \E start, end \in 0..(Len(content) + 1) : SliceText(start, end)
       \/ \E start, end \in 0..(Len(content) + 1) : SliceBytes(start, end)

SpecSlice == InitChars /\ [][NextSlice]_vars

\* C22: slice_bytes(a..b) is content[min(a, len) .. min(b, len)], slice(a..b)
\* is the same bytes decoded leniently, and both are empty when a >= b or
\* a >= len.
C22_SliceClamps ==
    LET a == Min(last.start, Len(content))
        b == Min(last.end, Len(content))
        bytes == IF a >= b THEN <<>> ELSE SubSeq(content, a + 1, b)
    IN  /\ last.op = "slice_bytes" => last.ret = bytes
        /\ last.op = "slice" => last.ret = from_utf8_lossy(bytes)
        /\ (last.op \in {"slice", "slice_bytes"}
              /\ (last.start >= last.end \/ last.start >= Len(content)))
             => last.ret = <<>>

\* A range that starts inside the buffer and ends behind it has been read
\* and clamped to a non-empty result.
C22_Witness ==
    /\ last.op = "slice_bytes"
    /\ last.start > 0
    /\ last.end > Len(content)
    /\ Len(last.ret) = Len(content) - last.start
    /\ Len(last.ret) >= 2


(***************************************************************************)
(* SpecSave: a buffer that is edited and saved.                            *)
(***************************************************************************)
Paths == {"a.txt", "b.txt"}

\* Buffer::load_from_file(path) of a file holding s: the state after
\* construction.
load_from_file(path, s) ==
    /\ content = s
    /\ modified = FALSE
    /\ file_path = path
    /\ line_cache = EmptyCache
    /\ iter = NoIter
    /\ born = <<>>
    /\ chunks = NoChunks
    /\ range = [start |-> 0, end |-> 0]
    /\ windows = <<>>
    /\ hooks = 0
    /\ parser = AnsiParser_new
    /\ result = <<>>
    /\ fs = NoFiles
    /\ last = NoOp

\* buffer.save()
Save(io) ==
    LET r == save(modified, file_path, io)
    IN  /\ modified' = r.modified
        /\ file_path' = r.file_path
        /\ last' = [op |-> "save", path |-> file_path, ret |-> r.ret]
        /\ UNCHANGED <<content, line_cache, iter, born, chunks, range, windows, hooks, parser, result, fs>>

\* buffer.save_to_file(path)
SaveToFile(path, io) ==
    LET r == save_to_file(modified, file_path, path, io)
    IN  /\ modified' = r.modified
        /\ file_path' = r.file_path
        /\ last' = [op |-> "save_to_file", path |-> path, ret |-> r.ret]
        /\ UNCHANGED <<content, line_cache, iter, born, chunks, range, windows, hooks, parser, result, fs>>

InitSave ==
    \E s \in SeqsUpTo(LineBytes, MaxLen) :
        \/ from_str(s)
        \/ \E path \in Paths : load_from_file(path, s)

NextSave ==
    \/ \E pos \in 0..Len(content), text \in InsertTexts : Insert(pos, text)
    \/ \E start \in 0..Len(content) : \E end \in start..Len(content) : Delete(start, end)
    \/ \E io \in IoOutcomes : Save(io)
    \/ \E path \in Paths, io \in IoOutcomes : SaveToFile(path, io)

SpecSave == InitSave /\ [][NextSave]_vars

\* C23: save() without a file path returns an error and changes nothing; a
\* save that succeeds clears the modified flag and sets the path; a save
\* that fails leaves flag and path as they were; nothing else clears the
\* flag or changes the path, and no save changes the content.
C23_SaveOutcome ==
    [][/\ (last'.op = "save" /\ file_path = NoPath) =>
             /\ last'.ret = "Err"
             /\ UNCHANGED <<content, modified, file_path>>
       /\ (last'.op \in {"save", "save_to_file"} /\ last'.ret = "Ok") =>
             /\ ~modified'
             /\ file_path' = last'.path
             /\ content' = content
       /\ (last'.op \in {"save", "save_to_file"} /\ last'.ret = "Err") =>
             UNCHANGED <<content, modified, file_path>>
       /\ ((modified /\ ~modified') \/ file_path' # file_path) =>
             (last'.op \in {"save", "save_to_file"} /\ last'.ret = "Ok")]_vars

\* A modified buffer with a path has failed to save to another path and
\* kept its flag and its path.
C23_Witness ==
    /\ last.op = "save_to_file"
    /\ last.ret = "Err"
    /\ modified
    /\ file_path # NoPath
    /\ file_path # last.path


\* C24: insert of an empty text and delete of an empty range (start >= end)
\* change nothing: content, length, modified flag, file path and line cache
\* stay as they were.
C24_EmptyEditsAreNoOps ==
    [][((last'.op = "insert" /\ Len(last'.text) = 0)
          \/ (last'.op = "delete" /\ last'.start >= last'.end))
       => UNCHANGED <<content, modified, file_path, line_cache>>]_vars

\* An empty range, start behind end, has been deleted from an unmodified
\* buffer that has content and cached lines.
C24_Witness ==
    /\ last.op = "delete"
    /\ last.start > last.end
    /\ ~modified
    /\ Len(content) > 0
    /\ DOMAIN line_cache # {}


\* C25: handle_line_cache_insertion(x, ..) and handle_line_cache_deletion(x, ..)
\* leave every cache entry with a byte offset strictly less than x as it was:
\* still present, same offset, same line number.
C25_HooksKeepEarlierEntries ==
    [][last'.op \in {"handle_insertion", "handle_deletion"} =>
          \A o \in DOMAIN line_cache :
              o < last'.x => (o \in DOMAIN line_cache' /\ line_cache'[o] = line_cache[o])]_vars

\* An insertion hook has run at x on a cache that held an entry before x and
\* an entry at or behind x; the former is there, the latter has moved.
C25_Witness ==
    /\ last.op = "handle_insertion"
    /\ \E o \in DOMAIN line_cache : o < last.x
    /\ \E o \in DOMAIN line_cache : o >= last.x + last.b /\ line_cache[o] > last.n

(***************************************************************************)
(* SpecInvalidate: line number queries that fill the cache, with up to      *)
(* MaxHooks invalidations from an offset or clears in between.             *)
(***************************************************************************)
\* buffer.invalidate_line_cache_from(byte_offset) that keeps the entry at
\* byte_offset itself.
InvalidateLineCacheFrom_behind(byte_offset) ==
    /\ hooks < MaxHooks
    /\ hooks' = hooks + 1
    /\ line_cache' = invalidate_from(line_cache, byte_offset + 1)
    /\ last' = [op |-> "invalidate_from", x |-> byte_offset,
                dropped |-> DOMAIN line_cache \ DOMAIN line_cache']
    /\ UNCHANGED <<content, modified, iter, born, chunks, range, windows, file_path, parser, result, fs>>

\* buffer.invalidate_line_cache_from(byte_offset)
InvalidateLineCacheFrom(byte_offset) ==
    /\ hooks < MaxHooks
    /\ hooks' = hooks + 1
    /\ line_cache' = invalidate_from(line_cache, byte_offset)
    /\ last' = [op |-> "invalidate_from", x |-> byte_offset,
                dropped |-> DOMAIN line_cache \ DOMAIN line_cache']
    /\ UNCHANGED <<content, modified, iter, born, chunks, range, windows, file_path, parser, result, fs>>

\* buffer.clear_line_cache()
ClearLineCache ==
    /\ hooks < MaxHooks
    /\ hooks' = hooks + 1
    /\ line_cache' = clear(line_cache)
    /\ last' = [op |-> "clear"]
    /\ UNCHANGED <<content, modified, iter, born, chunks, range, windows, file_path, parser, result, fs>>

NextInvalidate ==
    \/ \E byte_offset \in 0..MaxQuery : GetLineNumber(byte_offset)
    \/ \E byte_offset \in 0..MaxQuery : InvalidateLineCacheFrom(byte_offset)
    \/ ClearLineCache

InitInvalidate == \E s \in SeqsUpTo(LineBytes, MaxLen) : from_str(s)

SpecInvalidate == InitInvalidate /\ [][NextInvalidate]_vars

\* C26: after invalidate_line_cache_from(x) the cache holds no entry with a
\* byte offset >= x and holds, unchanged, every entry that had a byte
\* offset < x.
C26_InvalidateFrom ==
    [][last'.op = "invalidate_from" =>
          /\ \A o \in DOMAIN line_cache' : o < last'.x
          /\ \A o \in DOMAIN line_cache :
                 o < last'.x => (o \in DOMAIN line_cache' /\ line_cache'[o] = line_cache[o])]_vars

\* An invalidation from x has dropped the entry at x and later ones and has
\* kept an entry before x.
C26_Witness ==
    /\ last.op = "invalidate_from"
    /\ last.x \in last.dropped
    /\ \E o \in last.dropped : o > last.x
    /\ \E o \in DOMAIN line_cache : o > 0 /\ line_cache[o] > 0


\* C27: for any chunk_size >= 1 and any overlap, the first window holds
\* min(chunk_size, end - start) bytes from start with valid_start = 0; every
\* later window begins with the trailing overlap bytes of the window before
\* it (all of it when it is shorter), then holds at most chunk_size bytes
\* that no earlier window held, and absolute_pos + valid_start is the end
\* offset of the window before it.
C27_WindowStructure ==
    /\ Len(windows) >= 1 =>
           /\ windows[1].absolute_pos = range.start
           /\ windows[1].valid_start = 0
           /\ windows[1].buffer =
                  Slice(content, range.start,
                        range.start + Min(chunks.chunk_size, range.end - range.start))
    /\ \A k \in 2..Len(windows) :
           LET p == windows[k - 1]
               w == windows[k]
               p_end == p.absolute_pos + Len(p.buffer)
               keep == Min(chunks.overlap, Len(p.buffer))
           IN  /\ w.absolute_pos = p_end - keep
               /\ w.buffer = Slice(content, w.absolute_pos, w.absolute_pos + Len(w.buffer))
               /\ Len(w.buffer) >= keep
               /\ Len(w.buffer) - keep <= chunks.chunk_size
               /\ w.absolute_pos + w.valid_start = p_end


\* C28: for chunk_size >= 1 the stream terminates: every window after the
\* first ends behind every earlier window, so it holds a byte that none of
\* them held and at most end - start windows are produced; a range with
\* start >= end produces no window; and once next() has returned None every
\* later call returns None.
C28_StreamTerminates ==
    [][/\ last'.op = "chunks_next"
       /\ IF last'.ret.some
          THEN /\ windows' = Append(windows, last'.ret)
               /\ \A k \in 1..Len(windows) :
                      windows[k].absolute_pos + Len(windows[k].buffer)
                          < last'.ret.absolute_pos + Len(last'.ret.buffer)
               /\ last'.ret.absolute_pos + Len(last'.ret.buffer) <= range.end
               /\ range.start < range.end
               /\ Len(windows') <= range.end - range.start
          ELSE windows' = windows
       /\ StreamDone => ~last'.ret.some]_vars

\* A stream with an overlap has produced as many windows as the range has
\* bytes, three or more, and has then returned None.
C28_Witness ==
    /\ StreamDone
    /\ chunks.overlap >= 1
    /\ Len(windows) >= 3
    /\ Len(windows) = range.end - range.start


(***************************************************************************)
(* SpecWalk: test_line_iterator for any buffer: an iterator created at     *)
(* offset 0 is asked for lines until it returns None; the lines returned   *)
(* so far are kept in last.lines.                                          *)
(***************************************************************************)
\* let mut iter = buffer.line_iterator(0)
WalkStart ==
    LET it == LineIterator_new(content, 0)
    IN  /\ last.op = "init"
        /\ iter' = [live |-> TRUE, snap |-> it.snap, pos |-> it.pos]
        /\ born' = content
        /\ last' = [op |-> "walk", lines |-> <<>>, done |-> FALSE]
        /\ UNCHANGED <<content, modified, line_cache, chunks, range, windows, hooks, file_path, parser, result, fs>>

\* iter.next(), until it has returned None
WalkNext ==
    /\ last.op = "walk"
    /\ ~last.done
    /\ LET r == LineIterator_next(iter)
       IN  /\ iter' = r.it
           /\ last' = [op |-> "walk",
                       lines |-> IF r.ret.some THEN Append(last.lines, r.ret)
                                 ELSE last.lines,
                       done |-> ~r.ret.some]
    /\ UNCHANGED <<content, modified, line_cache, born, chunks, range, windows, hooks, file_path, parser, result, fs>>

NextWalk ==
    \/ WalkStart
    \/ WalkNext

SpecWalk == InitLines /\ [][NextWalk]_vars

\* The texts of the lines ls one after the other.
RECURSIVE ConcatLines(_)
ConcatLines(ls) ==
    IF Len(ls) = 0 THEN <<>>
    ELSE ConcatLines(SubSeq(ls, 1, Len(ls) - 1)) \o ls[Len(ls)].text

\* C29: repeated next() on an iterator created at offset 0 returns lines
\* with contiguous starts (the first 0, each other the start plus the length
\* of the one before), each ending with a newline except possibly the last;
\* next() returns None exactly when the lines returned so far make up the
\* whole buffer, so together they are the buffer and an empty buffer gives
\* no line.
C29_LinesPartitionBuffer ==
    last.op = "walk" =>
        LET ls == last.lines
        IN  /\ \A k \in 1..Len(ls) :
                   /\ ls[k].some
                   /\ ls[k].start = IF k = 1 THEN 0
                                    ELSE ls[k - 1].start + Len(ls[k - 1].text)
                   /\ Len(ls[k].text) >= 1
                   /\ k < Len(ls) => ls[k].text[Len(ls[k].text)] = NL
            /\ ConcatLines(ls) = Slice(content, 0, Len(ConcatLines(ls)))
            /\ last.done => ConcatLines(ls) = content
            /\ (~last.done /\ Len(ls) > 0) =>
                   (ls[Len(ls)].text[Len(ls[Len(ls)].text)] = NL
                      \/ ConcatLines(ls) = content)
            /\ Len(content) = 0 => ls = <<>>

\* The walk is over and has returned three lines, the last without a
\* newline and the second holding only a newline.
C29_Witness ==
    /\ last.op = "walk"
    /\ last.done
    /\ Len(last.lines) = 3
    /\ last.lines[2].text = <<NL>>
    /\ last.lines[3].text[Len(last.lines[3].text)] # NL


\* C30: on an unedited buffer no longer than the estimation threshold, with
\* a line cache that was empty at first and has been filled by queries at
\* offsets up to len only, get_line_number(p) is the line of
\* position_to_line_col(p) for every p <= len.
C30_LineNumbersAgree ==
    (/\ last.op = "get_line_number"
     /\ ~modified
     /\ \A o \in DOMAIN line_cache : o <= Len(content)
     /\ Len(content) <= ESTIMATION_THRESHOLD
     /\ last.byte_offset <= Len(content))
    => last.ret = position_to_line_col(content, last.byte_offset).line


\* C31: after creation at any offset and after any sequence of next() and
\* prev() calls the cursor of a line iterator is at a line edge: 0, the
\* buffer length, or an offset that follows a newline byte; next() at the
\* end of the buffer and prev() at offset 0 return None and leave the cursor
\* where it was.
C31_CursorAtLineEdge ==
    [][/\ iter'.live =>
            \/ iter'.pos = 0
            \/ iter'.pos = Len(iter'.snap)
            \/ (iter'.pos \in 1..Len(iter'.snap) /\ iter'.snap[iter'.pos] = NL)
       /\ (last'.op = "next" /\ iter.pos >= Len(iter.snap)) =>
            (~last'.ret.some /\ iter'.pos = iter.pos)
       /\ (last'.op = "prev" /\ iter.pos = 0) =>
            (~last'.ret.some /\ iter'.pos = iter.pos)]_vars

\* prev() has returned a line from the middle of the buffer and has left
\* the cursor behind a newline, away from both ends.
C31_Witness ==
    /\ last.op = "prev"
    /\ last.ret.some
    /\ iter.pos > 0
    /\ iter.pos < Len(iter.snap)
    /\ iter.snap[iter.pos] = NL


\* C32: in every state of an OverlappingChunks stream
\* buffer_start_pos + buffer.len() = current_read_pos, current_read_pos is
\* at most end when start <= end, and every window yielded is a copy of the
\* source: its buffer is the snapshot's bytes at
\* [absolute_pos, absolute_pos + buffer.len()).
C32_StreamInvariant ==
    /\ chunks.buffer_start_pos + Len(chunks.buffer) = chunks.current_read_pos
    /\ range.start <= range.end => chunks.current_read_pos <= chunks.end
    /\ \A k \in 1..Len(windows) :
           /\ windows[k].absolute_pos + Len(windows[k].buffer) <= Len(content)
           /\ windows[k].buffer =
                  SubSeq(content, windows[k].absolute_pos + 1,
                         windows[k].absolute_pos + Len(windows[k].buffer))

\* The stream has drained its buffer at least once: its latest window
\* starts behind the start of the range and carries an overlap.
C32_Witness ==
    /\ Len(windows) >= 2
    /\ chunks.buffer_start_pos > range.start
    /\ windows[Len(windows)].absolute_pos = chunks.buffer_start_pos
    /\ windows[Len(windows)].valid_start >= 1
    /\ Len(windows[Len(windows)].buffer) > windows[Len(windows)].valid_start


(***************************************************************************)
(* SpecMove: one call of one of the four cursor movement helpers on a      *)
(* buffer of arbitrary bytes: a letter, a space, a UTF-8 lead byte and a   *)
(* continuation byte, in any order.                                        *)
(***************************************************************************)
InitMove == \E s \in SeqsUpTo(WordBytes, MaxMoveLen) : from_str(s)

NextMove ==
    /\ last.op = "init"
    /\ \/ \E pos \in 0..(Len(content) + 1) : PrevCharBoundary(pos)
       \/ \E pos \in 0..(Len(content) + 1) : NextCharBoundary(pos)
       \/ \E pos \in 0..(Len(content) + 1) : PrevWordBoundary(pos)
       \/ \E pos \in 0..(Len(content) + 1) : NextWordBoundary(pos)

SpecMove == InitMove /\ [][NextMove]_vars

\* C33: the four helpers make strict progress and stay in bounds: for pos in
\* (0, len] the prev_* functions return a value in [0, pos - 1], and
\* prev_char_boundary one >= pos - 4; for pos in [0, len) the next_*
\* functions return a value in [pos + 1, len], and next_char_boundary one
\* <= pos + 4; at pos = 0 the prev_* functions return 0 and at pos >= len
\* the next_* functions return len.
C33_StrictProgress ==
    /\ (last.op \in {"prev_char_boundary", "prev_word_boundary"}
          /\ last.pos > 0 /\ last.pos <= Len(content))
       => last.ret \in 0..(last.pos - 1)
    /\ (last.op = "prev_char_boundary" /\ last.pos > 0 /\ last.pos <= Len(content))
       => last.ret >= last.pos - 4
    /\ (last.op \in {"next_char_boundary", "next_word_boundary"}
          /\ last.pos < Len(content))
       => last.ret \in (last.pos + 1)..Len(content)
    /\ (last.op = "next_char_boundary" /\ last.pos < Len(content))
       => last.ret <= last.pos + 4
    /\ (last.op \in {"prev_char_boundary", "prev_word_boundary"} /\ last.pos = 0)
       => last.ret = 0
    /\ (last.op \in {"next_char_boundary", "next_word_boundary"}
          /\ last.pos >= Len(content))
       => last.ret = Len(content)

\* prev_char_boundary has looked at four continuation bytes in a row before
\* pos, none of them at offset 0.
C33_Witness ==
    /\ last.op = "prev_char_boundary"
    /\ last.pos = Len(content)
    /\ last.pos >= 5
    /\ \A k \in (last.pos - 3)..last.pos : IsCont(content[k])
    /\ last.ret \in (last.pos - 4)..(last.pos - 1)


(***************************************************************************)
(* SpecRegex: one regex search, for the regex of a literal, on a buffer of *)
(* any content.                                                            *)
(***************************************************************************)
\* buffer.find_next_regex(&Regex::new(&regex::escape(literal)), start_pos)
FindNextRegex(literal, start_pos) ==
    /\ last.op = "init"
    /\ last' = [op |-> "find_next_regex", pattern |-> literal, start_pos |-> start_pos,
                ret |-> find_next_regex(content, literal, start_pos)]
    /\ UNCHANGED <<content, modified, line_cache, iter, born, chunks, range, windows, hooks, file_path, parser, result, fs>>

NextRegex ==
    \E literal \in Patterns \ {<<>>}, start_pos \in 0..(Len(content) + 1) :
        FindNextRegex(literal, start_pos)

SpecRegex == InitSearch /\ [][NextRegex]_vars

\* C34: for the regex of a literal P with 1 <= |P| <= OVERLAP + 1 (4097 in
\* the source, which is also CHUNK_SIZE + 1 of the literal search),
\* find_next_regex(regex, start) returns what find_next(P, start) returns,
\* for every content and every start in [0, len], also when the occurrence
\* straddles the end of a regex window.
C34_RegexAsLiteral ==
    (/\ last.op = "find_next_regex"
     /\ Len(last.pattern) >= 1
     /\ Len(last.pattern) <= REGEX_OVERLAP + 1
     /\ Len(last.pattern) <= CHUNK_SIZE + 1
     /\ last.start_pos <= Len(content))
    => last.ret = find_next(content, last.pattern, last.start_pos)

\* The longest literal covered has been found across the end of the first
\* regex window.
C34_Witness ==
    /\ last.op = "find_next_regex"
    /\ last.start_pos = 0
    /\ Len(last.pattern) = REGEX_OVERLAP + 1
    /\ last.ret # None
    /\ last.ret < REGEX_CHUNK_SIZE
    /\ last.ret + Len(last.pattern) > REGEX_CHUNK_SIZE


(***************************************************************************)
(* Multi-cursor commands (src/src/input/multi_cursor.rs).  The commands    *)
(* read the primary cursor and the buffer and return the cursor to add;    *)
(* they change neither.                                                    *)
(***************************************************************************)
\* Cursor::new and Cursor::with_selection: a position and, with a
\* selection, the anchor it extends from.
Cursor_new(position) == [position |-> position, anchor |-> None]
Cursor_with_selection(start, end) == [position |-> end, anchor |-> start]

\* AddCursorResult
Success(cursor) == [ok |-> TRUE, cursor |-> cursor, message |-> ""]
Failed(message) == [ok |-> FALSE, cursor |-> Cursor_new(0), message |-> message]

\* str::trim_end_matches('\n')
RECURSIVE trim_end_newlines(_)
trim_end_newlines(t) ==
    IF Len(t) > 0 /\ t[Len(t)] = NL
    THEN trim_end_newlines(SubSeq(t, 1, Len(t) - 1))
    ELSE t

\* add_cursor_above, for the primary cursor at position
add_cursor_above(vbuf, position) ==
    LET adjusted_position ==
            IF position < Len(vbuf) /\ vb_read(vbuf, position, 1) = <<NL>>
            THEN position + 1
            ELSE position
        first == LineIterator_next(LineIterator_new(vbuf, adjusted_position))
        line_start == first.ret.start
        col_offset == adjusted_position - line_start
        back == LineIterator_prev(first.it)
        above == LineIterator_prev(back.it)
    IN  IF ~first.ret.some THEN Failed("Unable to find current line")
        ELSE IF line_start = 0 THEN Failed("Already at first line")
        ELSE IF above.ret.some
        THEN Success(Cursor_new(above.ret.start
                                  + Min(col_offset, Len(trim_end_newlines(above.ret.text)))))
        ELSE Failed("Already at first line")

\* Cursor::selection_range of the primary cursor: None without a selection.
NoSelection == [some |-> FALSE, start |-> 0, end |-> 0]
SomeSelection(start, end) == [some |-> TRUE, start |-> start, end |-> end]

\* EditorState::get_text_range: the text of the buffer in [start, end)
get_text_range(vbuf, start, end) == slice(vbuf, start, end)

\* add_cursor_at_next_match, for the primary cursor's selection_range
add_cursor_at_next_match(vbuf, selection_range) ==
    IF ~selection_range.some THEN Failed("No selection to match")
    ELSE LET pattern == get_text_range(vbuf, selection_range.start, selection_range.end)
             search_start == selection_range.end
             match_pos == find_next(vbuf, pattern, search_start)
         IN  IF match_pos = None THEN Failed("No more matches")
             ELSE Success(Cursor_with_selection(match_pos, match_pos + Len(pattern)))

(***************************************************************************)
(* SpecAbove: one add_cursor_above for a primary cursor anywhere in a      *)
(* buffer of lines.                                                        *)
(***************************************************************************)
\* add_cursor_above(state) with state.cursors.primary().position = position
AddCursorAbove(position) ==
    /\ last.op = "init"
    /\ last' = [op |-> "add_cursor_above", position |-> position,
                ret |-> add_cursor_above(content, position)]
    /\ UNCHANGED <<content, modified, line_cache, iter, born, chunks, range, windows, hooks, file_path, parser, result, fs>>

NextAbove == \E position \in 0..Len(content) : AddCursorAbove(position)

SpecAbove == InitLines /\ [][NextAbove]_vars

\* C35: for every primary cursor position p, add_cursor_above either fails
\* or returns a cursor on the line just above the line that holds p, at
\* column min(column of p, length of that line without its newline); when p
\* is on the first line it returns Failed("Already at first line").
C35_CursorOneLineUp ==
    last.op = "add_cursor_above" =>
        LET p == last.position
            line == NewlinesBefore(content, p)
            s == SetMax({o \in LineStarts(content) : o <= p})
            column == p - s
        IN  /\ last.ret.ok =>
                  /\ line >= 1
                  /\ LET above == SetMax({o \in LineStarts(content) : o < s})
                     IN  last.ret.cursor.position = above + Min(column, s - 1 - above)
            /\ line = 0 =>
                  (~last.ret.ok /\ last.ret.message = "Already at first line")


(***************************************************************************)
(* SpecMatch: one add_cursor_at_next_match for a primary cursor with or    *)
(* without a selection.                                                    *)
(***************************************************************************)
\* add_cursor_at_next_match(state) with
\* state.cursors.primary().selection_range() = selection_range
AddCursorAtNextMatch(selection_range) ==
    /\ last.op = "init"
    /\ last' = [op |-> "add_cursor_at_next_match", selection |-> selection_range,
                ret |-> add_cursor_at_next_match(content, selection_range)]
    /\ UNCHANGED <<content, modified, line_cache, iter, born, chunks, range, windows, hooks, file_path, parser, result, fs>>

NextMatch ==
    \/ AddCursorAtNextMatch(NoSelection)
    \/ \E start \in 0..Len(content) : \E end \in (start + 1)..Len(content) :
           AddCursorAtNextMatch(SomeSelection(start, end))

SpecMatch == InitSearch /\ [][NextMatch]_vars

\* C36: add_cursor_at_next_match returns Failed("No more matches") when the
\* selected text occurs nowhere in the buffer but at the primary selection;
\* whenever it returns Success, the selection of the new cursor is an
\* occurrence of the selected text at another position than the primary
\* selection.
C36_NextMatchIsAnother ==
    (last.op = "add_cursor_at_next_match" /\ last.selection.some) =>
        LET text == Slice(content, last.selection.start, last.selection.end)
            others == Occurrences(content, text) \ {last.selection.start}
        IN  /\ others = {} =>
                  (~last.ret.ok /\ last.ret.message = "No more matches")
            /\ last.ret.ok =>
                  /\ last.ret.cursor.anchor \in others
                  /\ last.ret.cursor.position = last.ret.cursor.anchor + Len(text)


(***************************************************************************)
(* The ANSI parser fed one character at a time, as the loop of             *)
(* strip_ansi_codes feeds it.  last.text is the text fed so far.           *)
(***************************************************************************)
AnsiChars == {ESC, LBracket, RBracket, Digit1, LetterM, Tilde, LetterX, BEL}

\* One turn of the loop of strip_ansi_codes: parser.parse_char(ch), and
\* result.push(ch) when it returned a style.
ParseChar(ch) ==
    LET r == parse_char(parser, ch)
        fed == IF last.op = "parse_char" THEN last.text ELSE <<>>
    IN  /\ Len(fed) < MaxAnsiLen
        /\ parser' = r.parser
        /\ result' = IF r.ret.some THEN Append(result, ch) ELSE result
        /\ last' = [op |-> "parse_char", ch |-> ch, ret |-> r.ret,
                    text |-> Append(fed, ch)]
        /\ UNCHANGED <<content, modified, file_path, line_cache, iter, born, chunks,
                       range, windows, hooks, fs>>

NextAnsi == \E ch \in AnsiChars : ParseChar(ch)

SpecAnsi == from_str(<<>>) /\ [][NextAnsi]_vars

\* C38: the escape buffer never holds more than ESCAPE_LIMIT + 1
\* characters: an escape sequence that grows beyond ESCAPE_LIMIT characters
\* is taken as complete, so that the parser leaves the escape state.
C38_EscapeBufferBounded ==
    [][last'.op = "parse_char" =>
         /\ Len(parser'.escape_buffer) <= ESCAPE_LIMIT + 1
         /\ (parser.in_escape /\ Len(parser.escape_buffer) + 1 > ESCAPE_LIMIT)
                => ~parser'.in_escape]_vars


\* The text is one CSI sequence (ESC [, parameter and intermediate bytes
\* 0x20-0x3F, one final byte 0x40-0x7E) followed by one ordinary character.
IsCsiThenChar(t) ==
    /\ Len(t) >= 4
    /\ t[1] = ESC
    /\ t[2] = LBracket
    /\ \A k \in 3..(Len(t) - 2) : t[k] \in 32..63
    /\ t[Len(t) - 1] \in 64..126
    /\ t[Len(t)] # ESC

\* C39: a CSI sequence ends with its first final byte (0x40-0x7E): the
\* character after it is displayed, and strip_ansi_codes keeps exactly it.
C39_CsiEndsAtFinalByte ==
    (last.op = "parse_char" /\ IsCsiThenChar(last.text)) =>
        /\ last.ret.some
        /\ result = <<last.ch>>
        /\ strip_ansi_codes(last.text) = <<last.ch>>



(***************************************************************************)
(* Session::save (src/src/session.rs:356-387), one action per fallible     *)
(* step, for a single writer.  A step that fails returns the error (the ?  *)
(* operator) and leaves the files as they are.  WriteBack and Crash are    *)
(* the operating system's part.                                            *)
(***************************************************************************)
\* What the file system does to a step: it succeeds or returns an error.
SessionIo == {"ok", "err"}

SessionStep(step, ret) == [op |-> "session_save", step |-> step, ret |-> ret]

SessionFrame ==
    UNCHANGED <<content, modified, file_path, line_cache, iter, born, chunks, range,
                windows, hooks, parser, result>>

\* get_session_path, create_dir_all, to_string_pretty and with_extension.
SessionSerialize(session, io) ==
    /\ fs.pc = "idle"
    /\ fs' = IF io = "ok"
             THEN [fs EXCEPT !.pc = "create", !.content = to_string_pretty(session)]
             ELSE fs
    /\ last' = SessionStep("serialize", IF io = "ok" THEN "running" ELSE "Err")
    /\ SessionFrame

\* File::create(&temp_path): creates the file or truncates the one left by
\* an earlier save.
SessionCreate(io) ==
    /\ fs.pc = "create"
    /\ fs' = IF io = "ok"
             THEN [fs EXCEPT !.pc = "write", !.tmp = File(<<>>, FALSE)]
             ELSE [fs EXCEPT !.pc = "idle"]
    /\ last' = SessionStep("create", IF io = "ok" THEN "running" ELSE "Err")
    /\ SessionFrame

\* file.write_all(content.as_bytes()): one write of n further bytes.
SessionWrite(n, io) ==
    /\ fs.pc = "write"
    /\ n \in 1..(Len(fs.content) - Len(fs.tmp.data))
    /\ LET written == SubSeq(fs.content, 1, Len(fs.tmp.data) + n)
       IN  fs' = IF io = "ok"
                 THEN [fs EXCEPT !.tmp = File(written, FALSE),
                                 !.pc = IF written = fs.content THEN "sync" ELSE "write"]
                 ELSE [fs EXCEPT !.pc = "idle"]
    /\ last' = SessionStep("write", IF io = "ok" THEN "running" ELSE "Err")
    /\ SessionFrame

\* Session::save without file.sync_all().
SessionSync_skipped(io) ==
    /\ fs.pc = "sync"
    /\ fs' = [fs EXCEPT !.pc = IF io = "ok" THEN "rename" ELSE "idle"]
    /\ last' = SessionStep("sync", IF io = "ok" THEN "running" ELSE "Err")
    /\ SessionFrame

\* file.sync_all()
SessionSync(io) ==
    /\ fs.pc = "sync"
    /\ fs' = IF io = "ok"
             THEN [fs EXCEPT !.pc = "rename", !.tmp.synced = TRUE]
             ELSE [fs EXCEPT !.pc = "idle"]
    /\ last' = SessionStep("sync", IF io = "ok" THEN "running" ELSE "Err")
    /\ SessionFrame

\* std::fs::rename(&temp_path, &path), and Ok(()).
SessionRename(io) ==
    /\ fs.pc = "rename"
    /\ fs' = IF io = "ok"
             THEN [fs EXCEPT !.pc = "idle", !.session = fs.tmp, !.tmp = NoFile]
             ELSE [fs EXCEPT !.pc = "idle"]
    /\ last' = SessionStep("rename", IF io = "ok" THEN "Ok" ELSE "Err")
    /\ SessionFrame

\* The operating system writes the renamed directory entry to the disk.
WriteBack ==
    /\ fs.session # fs.session_disk
    /\ fs' = [fs EXCEPT !.session_disk = fs.session]
    /\ last' = [op |-> "write_back"]
    /\ SessionFrame

\* The machine stops at any point and restarts: the session path holds what
\* the disk held, the temporary file is gone, whole, or cut short, and no
\* save is under way.
Crash ==
    /\ \E found \in AfterCrash(fs.session_disk),
          left \in IF fs.session # fs.session_disk
                   THEN AfterCrash(fs.session)
                   ELSE {NoFile} \cup AfterCrash(fs.tmp) :
           fs' = [session |-> found, session_disk |-> found, tmp |-> left,
                  pc |-> "idle", content |-> <<>>]
    /\ last' = [op |-> "crash"]
    /\ SessionFrame

NextSession ==
    \/ \E session \in Sessions, io \in SessionIo : SessionSerialize(session, io)
    \/ \E io \in SessionIo : SessionCreate(io)
    \/ \E n \in 1..Len(fs.content), io \in SessionIo : SessionWrite(n, io)
    \/ \E io \in SessionIo : SessionSync(io)
    \/ \E io \in SessionIo : SessionRename(io)
    \/ WriteBack
    \/ Crash

SpecSession == from_str(<<>>) /\ [][NextSession]_vars

\* C37: Session::save renames the temporary file onto the session path only
\* when it holds the complete serialized session and is synced; at every
\* step of a save, after an I/O error and after a crash, the session path
\* holds what it held before, what the disk held, or the complete new
\* session, and never a partial or empty file.
C37_SaveIsCrashAtomic ==
    [][/\ (last'.op = "session_save" /\ last'.step = "rename" /\ last'.ret = "Ok") =>
             /\ fs.tmp = File(fs.content, TRUE)
             /\ fs'.session = File(fs.content, TRUE)
       /\ fs'.session # fs.session =>
             \/ last'.op = "session_save" /\ last'.step = "rename" /\ last'.ret = "Ok"
             \/ last'.op = "crash" /\ fs'.session = fs.session_disk
       /\ fs'.session.exists => IsCompleteSession(fs'.session)]_vars

\* A crash in the middle of the write of a second session: the temporary
\* file is cut short and the session path holds the first session.
C37_Witness ==
    /\ last.op = "crash"
    /\ fs.session = File(to_string_pretty(1), TRUE)
    /\ fs.tmp.exists
    /\ fs.tmp.data = <<LBrace, 2>>

====
